---- MODULE Spec2Model ----
(***************************************************************************)
(* Streaming claim pipeline of research-os: the vector index               *)
(* (RetrievalEngine), the adjudication cache and pair engine               *)
(* (EvidenceBasedDebate), the calibration layer, the causal graph and the  *)
(* stream orchestrator (UnifiedPipelineV2).                                *)
(*                                                                         *)
(* Numbers.  Embedding components are integers in units of 1/VScale, so a  *)
(* dot product or a squared L2 distance is an integer in units of          *)
(* 1/Scale2.  Confidences and similarities are integers in units of        *)
(* 1/Unit.  Strings the code concatenates, sorts or searches (claim ids,   *)
(* cache keys) are sequences of one-character strings.                     *)
(***************************************************************************)
EXTENDS Integers, Sequences, FiniteSets, TLC

\* ------------------------------------------------------------------ bounds
\* rows the ANN index may hold under IndexSpec
MaxRows == 3
\* unordered claim pairs the callers get a result for under Spec
MaxPairs == 1
\* runs of process_paper_stream on the paper under StreamSpec
MaxRuns == 2
\* calls of add_claim and add_relationship under GraphSpec
MaxGraphCalls == 3
\* calls of register_paper under DedupSpec
MaxRegistrations == 2
\* samples given to one call of CalibrationLayer.train
MaxSamples == 3
\* threads that run debate_claim_pair at the same time
NumSavers == 2
\* threads that use the model cache
NumWorkers == 2
\* calls of get_model that are never paired with a decrement
MaxUsage == 2

\* ------------------------------------------------------------- number units
VScale == 20
Scale2 == VScale * VScale
Unit == 10000

\* ---------------------------------------------------------------- strings
\* code points of the characters that occur in ids
Code ==
    ("_" :> 95) @@ ("0" :> 48) @@ ("1" :> 49) @@ ("2" :> 50) @@ ("3" :> 51) @@
    ("4" :> 52) @@ ("5" :> 53) @@ ("6" :> 54) @@ ("7" :> 55) @@ ("8" :> 56) @@
    ("9" :> 57) @@ ("p" :> 112) @@ ("q" :> 113)

DigitChar == <<"0", "1", "2", "3", "4", "5", "6", "7", "8", "9">>

\* str(n) for a natural number n
RECURSIVE Digits(_)
Digits(n) ==
    IF n < 10 THEN <<DigitChar[n + 1]>>
    ELSE Digits(n \div 10) \o <<DigitChar[(n % 10) + 1]>>

\* s < t in Python's string order (code point by code point, prefix first)
RECURSIVE StrLess(_, _)
StrLess(s, t) ==
    IF t = <<>> THEN FALSE
    ELSE IF s = <<>> THEN TRUE
    ELSE IF Code[Head(s)] # Code[Head(t)] THEN Code[Head(s)] < Code[Head(t)]
    ELSE StrLess(Tail(s), Tail(t))

\* sub in s  (Python's substring test)
IsSubstring(sub, s) ==
    \E i \in 1..(Len(s) - Len(sub) + 1) : SubSeq(s, i, i + Len(sub) - 1) = sub

\* ---------------------------------------------------------------- vectors
\* the dimension the index is built with (768 in the code, 2 here)
Dimension == 2

\* index.add and index.search of faiss reject a vector of another dimension
\* with an AssertionError
WrongDimension(embedding) == Len(embedding) # Dimension

Dot(u, v) == u[1] * v[1] + u[2] * v[2]

\* squared L2 distance, the metric of faiss.IndexHNSWFlat
L2sq(u, v) == (u[1] - v[1]) * (u[1] - v[1]) + (u[2] - v[2]) * (u[2] - v[2])

\* similarity = 1.0 / (1.0 + dist), in units of 1/Unit
Similarity(d) == (Unit * Scale2) \div (Scale2 + d)

\* ------------------------------------------------------- claims (inputs)
\* The texts a paper may contain.  tA and tB are two sentences that differ
\* only in letter case, which the embedding model maps to one vector.
Texts == {"tA", "tB", "tD", "tF", "tX"}

\* the embedding provider: text -> vector (external, a function of the text)
Embed ==
    ("tA" :> <<20, 0>>) @@ ("tB" :> <<20, 0>>) @@ ("tD" :> <<6, 5>>) @@
    ("tF" :> <<19, 0>>) @@ ("tX" :> <<20, 8>>) @@
    ("tG" :> <<18, 0>>) @@ ("tH" :> <<17, 0>>) @@ ("tI" :> <<16, 0>>) @@
    ("tJ" :> <<15, 0>>) @@ ("tN" :> <<20>>)

\* Python's hash(text) (external, stable within one process)
TextHash ==
    ("tA" :> 300001) @@ ("tB" :> 2) @@ ("tD" :> 4) @@
    ("tF" :> 100006) @@ ("tX" :> 700008) @@
    ("tG" :> 7) @@ ("tH" :> 9) @@ ("tI" :> 10) @@ ("tJ" :> 11) @@ ("tN" :> 12)

HashModulus == 100000

\* claim_id = f"{paper_id}_{hash(text) % 100000}"
ClaimId(paper_id, text) == paper_id \o <<"_">> \o Digits(TextHash[text] % HashModulus)

\* the claim dict the orchestrator builds for one extracted claim
ClaimDict(paper_id, text) ==
    [claim_id |-> ClaimId(paper_id, text),
     paper_id |-> paper_id,
     text |-> text,
     specter2_embedding |-> Embed[text]]

\* the claims the engine-level callers pass: those of paper "p"
ClaimDicts == {ClaimDict(<<"p">>, t) : t \in Texts}

\* the claims handed to debate_claim_pair: between them the pairs have a dot
\* product below 0.3, exactly 0.3, between, exactly 0.95 and above 0.95
DebateClaims == {ClaimDict(<<"p">>, t) : t \in {"tA", "tD", "tF", "tX"}}

\* the pairs of them debate_claim_pair is called for, in either order
DebatePairs ==
    {{"tA", "tF"}, {"tA", "tD"}, {"tF", "tD"}, {"tA", "tX"}, {"tX", "tD"}}

\* the claims handed to index_claim and search_by_embedding
IndexClaims == {ClaimDict(<<"p">>, t) : t \in {"tA", "tB", "tF", "tD"}}

ClaimOf(claim_id) == CHOOSE c \in ClaimDicts : c.claim_id = claim_id

\* --------------------------------------------------------------- state
VARIABLES
    index,            \* RetrievalEngine.index: the FAISS rows, row r is index[r + 1]
    id_to_index,      \* RetrievalEngine.id_to_index   {claim_id: faiss row}
    index_to_id,      \* RetrievalEngine.index_to_id   {faiss row: claim_id}
    id_to_metadata,   \* RetrievalEngine.id_to_metadata {claim_id: metadata}
    cache,            \* EvidenceBasedDebate.cache  {cache_key: DebateResult}
    disk,             \* contents of data/debate_cache.json
    first,            \* history: per unordered id pair, the first result returned
    last,             \* history: the last API call and what it did
    backend_type,     \* create_backend(backend_type): "inmemory" or "kuzu"
    backend_nodes,    \* the backend's nodes  {node_id: properties}
    backend_edges,    \* the backend's edges, in the order they were stored
    events,           \* KuzuBackend: the lines of data/graph_events.jsonl
    commits,          \* history: the node and edge writes the backend stored
    graph_calls,      \* history: calls of add_claim and add_relationship by a caller
    nx_nodes,         \* CausalGraphV2.nx_graph: the nodes of the mirror
    nx_edges,         \* CausalGraphV2.nx_graph: {(from, to): edge properties}
    stream,           \* process_paper_stream: where the generator stands
    tasks,            \* the _async_debate_claim tasks of the current run
    runs,             \* history: completed runs of process_paper_stream
    adjudicated,      \* history: run_debate invocations per unordered id pair
    after_first,      \* history: the edges and the cache when the first run ended
    validation_mode,  \* DeduplicationEngine.validation_mode
    file_hashes,      \* DeduplicationEngine.file_hashes   {file hash: paper_id}
    doi_mapping,      \* DeduplicationEngine.doi_mapping   {doi: paper_id}
    arxiv_mapping,    \* DeduplicationEngine.arxiv_mapping {base id: {paper_id, version}}
    embedding_ids,    \* DeduplicationEngine.embedding_ids
    embedding_vectors, \* DeduplicationEngine.embedding_vectors, one row per id
    dedup_disk,       \* the files of the storage directory
    registrations,    \* history: calls of register_paper so far
    calibrator,       \* CalibrationLayer.calibrator: the fitted regression, or None
    is_fitted,        \* CalibrationLayer.is_fitted
    model_file,       \* the file at CalibrationLayer.model_path
    savers,           \* the threads that run debate_claim_pair at the same time
    cache_file,       \* data/debate_cache.json as a reader finds it
    model_cache,      \* ModelCache: _models, _usage_count, _locks, _cleanup_lock
    workers           \* the threads that use the model cache

retrievalVars == <<index, id_to_index, index_to_id, id_to_metadata>>
debateVars == <<cache, disk, first>>
graphVars == <<backend_type, backend_nodes, backend_edges, events, commits, graph_calls,
               nx_nodes, nx_edges>>
streamVars == <<stream, tasks, runs, adjudicated, after_first>>
dedupVars == <<validation_mode, file_hashes, doi_mapping, arxiv_mapping,
               embedding_ids, embedding_vectors, dedup_disk, registrations>>
calibVars == <<calibrator, is_fitted, model_file>>
threadVars == <<savers, cache_file, model_cache, workers>>
vars == <<index, id_to_index, index_to_id, id_to_metadata, cache, disk, first, last,
          backend_type, backend_nodes, backend_edges, events, commits, graph_calls,
          nx_nodes, nx_edges,
          stream, tasks, runs, adjudicated, after_first,
          validation_mode, file_hashes, doi_mapping, arxiv_mapping,
          embedding_ids, embedding_vectors, dedup_disk, registrations,
          calibrator, is_fitted, model_file,
          savers, cache_file, model_cache, workers>>

Empty == <<>>

\* a dict with key k set to v
Put(f, k, v) == [x \in (DOMAIN f) \cup {k} |-> IF x = k THEN v ELSE f[x]]

\* ------------------------------------------------------- vector index
ntotal == Len(index)

\* faiss index.search(query, k): the k nearest rows by squared L2 distance,
\* nearest first; rows at equal distance come in an order the caller does
\* not control, so every order is a possible answer.
RECURSIVE NearestRows(_, _, _)
NearestRows(query, rows, k) ==
    IF k = 0 \/ rows = {} THEN {<<>>}
    ELSE LET dist(r) == L2sq(query, index[r + 1])
             best == {r \in rows : \A o \in rows : dist(r) <= dist(o)}
             owner(r) == IF r \in DOMAIN index_to_id THEN index_to_id[r] ELSE <<>>
             \* of the nearest rows of one claim id, whichever comes first gives
             \* the same result entry: the lowest stands for them
             firsts == {r \in best : \A o \in best : owner(o) = owner(r) => r <= o}
         IN  UNION {{<<r>> \o s : s \in NearestRows(query, rows \ {r}, k - 1)} : r \in firsts}

Min(a, b) == IF a <= b THEN a ELSE b

\* the result rows of search_by_embedding for one answer of the index
RECURSIVE BuildResults(_, _, _)
BuildResults(query, rows, min_similarity) ==
    IF rows = <<>> THEN <<>>
    ELSE LET idx == Head(rows)
             rest == BuildResults(query, Tail(rows), min_similarity)
             similarity == Similarity(L2sq(query, index[idx + 1]))
         IN  IF idx \notin DOMAIN index_to_id THEN rest
             ELSE IF similarity < min_similarity THEN rest
             ELSE LET claim_id == index_to_id[idx]
                      metadata == IF claim_id \in DOMAIN id_to_metadata
                                  THEN id_to_metadata[claim_id] ELSE Empty
                  IN  <<[claim_id |-> claim_id,
                         text |-> IF metadata = Empty THEN "" ELSE metadata.text,
                         similarity_score |-> similarity,
                         metadata |-> metadata]>> \o rest

\* RetrievalEngine.search_by_embedding: the set of result lists it may return
SearchByEmbedding(embedding, top_k, min_similarity) ==
    IF ntotal = 0 THEN {<<>>}
    ELSE {BuildResults(embedding, rows, min_similarity) :
            rows \in NearestRows(embedding, 0..(ntotal - 1), Min(top_k, ntotal))}

\* search_by_embedding raises when a non-empty index is searched with a
\* vector of another dimension (line 104)
SearchRaises(embedding) == ntotal # 0 /\ WrongDimension(embedding)

\* RetrievalEngine.search: embeds the query text, then searches by embedding
Search(query_text, top_k, min_similarity) ==
    SearchByEmbedding(Embed[query_text], top_k, min_similarity)

\* the retrieval engine's tables as one value
RetrievalState ==
    [index |-> index, id_to_index |-> id_to_index,
     index_to_id |-> index_to_id, id_to_metadata |-> id_to_metadata]

\* mutant: the row number is read after index.add, one past the new row
IndexAddRowAfterAdd(ix, claim_id, embedding, metadata) ==
    LET faiss_idx == Len(ix.index) + 1
    IN  [index |-> Append(ix.index, embedding),
         id_to_index |-> Put(ix.id_to_index, claim_id, faiss_idx),
         index_to_id |-> Put(ix.index_to_id, faiss_idx, claim_id),
         id_to_metadata |-> Put(ix.id_to_metadata, claim_id, metadata)]

\* RetrievalEngine.index_claim with use_chroma = False, as the tests build it:
\* the tables it leaves
IndexAdd(ix, claim_id, embedding, metadata) ==
    LET faiss_idx == Len(ix.index)
    IN  [index |-> Append(ix.index, embedding),
         id_to_index |-> Put(ix.id_to_index, claim_id, faiss_idx),
         index_to_id |-> Put(ix.index_to_id, faiss_idx, claim_id),
         id_to_metadata |-> Put(ix.id_to_metadata, claim_id, metadata)]

\* the engine's tables become ix
SetRetrieval(ix) ==
    /\ index' = ix.index
    /\ id_to_index' = ix.id_to_index
    /\ index_to_id' = ix.index_to_id
    /\ id_to_metadata' = ix.id_to_metadata

\* --------------------------------------------------------- calibration
\* CalibrationLayer.calibrate of a layer that was never trained
\* (is_fitted = False): calibrated = raw * 0.9, then the description.
Calibrate(raw_confidence) ==
    LET calibrated == (raw_confidence * 9) \div 10
        desc == IF calibrated * 10 < 3 * Unit THEN "Uncertain / Likely Noise"
                ELSE IF calibrated * 10 < 6 * Unit THEN "Weak Evidence"
                ELSE IF calibrated * 100 < 85 * Unit THEN "Moderate Confidence"
                ELSE "High Confidence"
    IN  <<calibrated, desc>>

\* a confidence as a fraction <<numerator, denominator>>; raw confidences are
\* multiples of 1/RawScale
RawScale == 4

FracLeq(a, b) == a[1] * b[2] <= b[1] * a[2]

FracLess(a, b) == a[1] * b[2] < b[1] * a[2]

\* the description calibrate gives a calibrated value (lines 59-66)
Describe(calibrated) ==
    IF FracLess(calibrated, <<3, 10>>) THEN "Uncertain / Likely Noise"
    ELSE IF FracLess(calibrated, <<6, 10>>) THEN "Weak Evidence"
    ELSE IF FracLess(calibrated, <<85, 100>>) THEN "Moderate Confidence"
    ELSE "High Confidence"

\* IsotonicRegression.fit, first step: one block for every distinct score, in
\* rising order, with the sum and the number of the labels given for it
BlocksOf(samples) ==
    LET xs == {samples[n][1] : n \in 1..Len(samples)}
        at(x) == {n \in 1..Len(samples) : samples[n][1] = x}
        ones(x) == Cardinality({n \in at(x) : samples[n][2] = 1})
        block(x) == [xs |-> <<x>>, sum |-> ones(x), cnt |-> Cardinality(at(x))]
        RECURSIVE rising(_)
        rising(S) == IF S = {} THEN <<>>
                     ELSE LET x == CHOOSE a \in S : \A b \in S : a <= b
                          IN  <<block(x)>> \o rising(S \ {x})
    IN  rising(xs)

\* mutant: blocks that are out of order are left as they are
PoolNever(blocks) == blocks

\* pool adjacent violators: while the mean of the last block is below the
\* mean of the block before it, the two are merged
RECURSIVE Pool(_)
Pool(blocks) ==
    LET n == Len(blocks)
        a == blocks[n - 1]
        b == blocks[n]
    IN  IF n >= 2 /\ a.sum * b.cnt > b.sum * a.cnt
        THEN Pool(Append(SubSeq(blocks, 1, n - 2),
                         [xs |-> a.xs \o b.xs, sum |-> a.sum + b.sum,
                          cnt |-> a.cnt + b.cnt]))
        ELSE blocks

RECURSIVE Pava(_, _)
Pava(stack, rest) ==
    IF rest = <<>> THEN stack
    ELSE Pava(Pool(Append(stack, Head(rest))), Tail(rest))

\* the fitted regression: its points <<x, y>> in rising order of x, every
\* score of a block with the mean of the block
RECURSIVE PointsOf(_)
PointsOf(blocks) ==
    IF blocks = <<>> THEN <<>>
    ELSE LET b == Head(blocks)
         IN  [n \in 1..Len(b.xs) |-> <<b.xs[n], <<b.sum, b.cnt>>>>] \o PointsOf(Tail(blocks))

\* IsotonicRegression(out_of_bounds='clip').fit(raw_confidences, true_labels)
Fit(samples) == PointsOf(Pava(<<>>, BlocksOf(samples)))

\* IsotonicRegression.predict: the score is clipped to the range of the
\* points and the value is interpolated linearly between the two around it
Predict(points, raw) ==
    LET n == Len(points)
        x == IF raw < points[1][1] THEN points[1][1]
             ELSE IF raw > points[n][1] THEN points[n][1]
             ELSE raw
        at == {i \in 1..n : points[i][1] = x}
        i == CHOOSE k \in 1..(n - 1) : points[k][1] < x /\ x < points[k + 1][1]
        x0 == points[i][1]
        x1 == points[i + 1][1]
        y0 == points[i][2]
        y1 == points[i + 1][2]
    IN  IF at # {} THEN points[CHOOSE k \in at : TRUE][2]
        ELSE <<y0[1] * y1[2] * (x1 - x0) + (y1[1] * y0[2] - y0[1] * y1[2]) * (x - x0),
               y0[2] * y1[2] * (x1 - x0)>>

\* CalibrationLayer.calibrate of a layer with the given is_fitted and
\* calibrator, for the raw confidence raw / RawScale
CalibrateWith(fitted, model, raw) ==
    LET calibrated == IF ~fitted THEN <<raw * 9, RawScale * 10>>
                      ELSE Predict(model, raw)
    IN  <<calibrated, Describe(calibrated)>>

\* CalibrationLayer.__init__: _load_model reads nothing, whatever is on disk
InitCalibration ==
    /\ calibrator = "None"
    /\ is_fitted = FALSE
    /\ model_file = "absent"

\* ------------------------------------------------- adjudication engine
\* DebateResult.verdict: Literal["refutes", "supports", "extends", "uncertain"]
Verdicts == {"refutes", "supports", "extends", "uncertain"}

\* mutant: the ids joined in call order, not sorted
GetCacheKeyUnsorted(id_a, id_b) == id_a \o <<"_">> \o id_b

\* EvidenceBasedDebate._get_cache_key: "_".join(sorted([id_a, id_b]))
GetCacheKey(id_a, id_b) ==
    IF StrLess(id_b, id_a) THEN id_b \o <<"_">> \o id_a
    ELSE id_a \o <<"_">> \o id_b

RECURSIVE SumScores(_)
SumScores(pool) ==
    IF pool = <<>> THEN 0 ELSE Head(pool).similarity_score + SumScores(Tail(pool))

Max(a, b) == IF a >= b THEN a ELSE b

\* mutant: the rule on the number of citations is missing
ShouldFlagIgnoringCitations(confidence, num_citations, evidence_pool) ==
    IF confidence * 100 < 85 * Unit THEN TRUE
    ELSE IF Len(evidence_pool) < 3 THEN TRUE
    ELSE (SumScores(evidence_pool) \div Max(Len(evidence_pool), 1)) * 10 < 7 * Unit

\* EvidenceBasedDebate._should_flag_for_review
ShouldFlagForReview(confidence, num_citations, evidence_pool) ==
    IF confidence * 100 < 85 * Unit THEN TRUE
    ELSE IF num_citations < 2 THEN TRUE
    ELSE IF Len(evidence_pool) < 3 THEN TRUE
    ELSE LET avg_evidence_quality == SumScores(evidence_pool) \div Max(Len(evidence_pool), 1)
         IN  IF avg_evidence_quality * 10 < 7 * Unit THEN TRUE ELSE FALSE

\* EvidenceBasedDebate._extract_citations: the ids of the evidence pool that
\* occur in some line of the transcript
ExtractCitations(debate_log, evidence_pool) ==
    {evidence_pool[i].claim_id : i \in
        {j \in 1..Len(evidence_pool) :
            \E n \in 1..Len(debate_log) : IsSubstring(evidence_pool[j].claim_id, debate_log[n])}}

\* the two pre-filter results (lines 90-99 and 106-115); a line of the
\* debate log is the sequence of its words
LowSimilarityResult ==
    [verdict |-> "uncertain", confidence |-> 0, calibrated_confidence |-> 0,
     confidence_desc |-> "Unrelated", citations |-> {}, requires_human |-> FALSE,
     debate_log |-> <<<<"Skipped", "due", "to", "low", "similarity", "(<0.3)">>>>,
     agent_confidences |-> Empty]

\* mutant: the confidence of a duplicate is put through the untrained calibrator
HighSimilarityResultCalibrated ==
    [verdict |-> "supports", confidence |-> Unit,
     calibrated_confidence |-> (90 * Unit) \div 100,
     confidence_desc |-> "High Confidence", citations |-> {},
     requires_human |-> FALSE,
     debate_log |-> <<<<"Skipped", "due", "to", "high", "similarity", "(>0.95)">>>>,
     agent_confidences |-> Empty]

HighSimilarityResult ==
    [verdict |-> "supports", confidence |-> Unit,
     calibrated_confidence |-> (99 * Unit) \div 100,
     confidence_desc |-> "High Confidence (Duplicate)", citations |-> {},
     requires_human |-> FALSE,
     debate_log |-> <<<<"Skipped", "due", "to", "high", "similarity", "(>0.95)">>>>,
     agent_confidences |-> Empty]

\* Steps 3-5 of debate_claim_pair: the structured result built from what
\* run_debate returned and the evidence pool
AdjudicatedResult(raw, evidence_pool) ==
    LET citations == ExtractCitations(raw.log, evidence_pool)
        cal == Calibrate(raw.confidence)
    IN  [verdict |-> raw.verdict,
         confidence |-> raw.confidence,
         calibrated_confidence |-> cal[1],
         confidence_desc |-> cal[2],
         citations |-> citations,
         requires_human |-> ShouldFlagForReview(cal[1], Cardinality(citations), evidence_pool),
         debate_log |-> raw.log,
         agent_confidences |->
            [skeptic |-> (raw.confidence * 9) \div 10,
             connector |-> raw.confidence,
             synthesizer |-> (raw.confidence * 11) \div 10]]

\* mutant: the thresholds themselves are filtered as well
PrefilterInclusive(claim_a, claim_b) ==
    LET sim == Dot(claim_a.specter2_embedding, claim_b.specter2_embedding)
    IN  IF sim * 10 <= 3 * Scale2 THEN "low"
        ELSE IF sim * 100 >= 95 * Scale2 THEN "high"
        ELSE "debate"

\* which branch of the similarity pre-filter (lines 82-118) a pair takes;
\* sim = np.dot(emb_a, emb_b)
Prefilter(claim_a, claim_b) ==
    LET sim == Dot(claim_a.specter2_embedding, claim_b.specter2_embedding)
    IN  IF sim * 10 < 3 * Scale2 THEN "low"
        ELSE IF sim * 100 > 95 * Scale2 THEN "high"
        ELSE "debate"

\* mutant: the cache is written but never consulted
CacheHitNever(c, cache_key) == FALSE

\* line 75: cache_key in self.cache
CacheHit(c, cache_key) == cache_key \in DOMAIN c

\* lines 100-102, 116-118 and 184-187: the result is stored under the key, the
\* cache is saved to disk and the result is returned
DebateDone(c, cache_key, path, result, invoked, evidence_pool) ==
    [path |-> path, raised |-> FALSE, invoked |-> invoked, result |-> result,
     cache |-> Put(c, cache_key, result), disk |-> Put(c, cache_key, result),
     evidence_pool |-> evidence_pool]

\* mutant: a failed adjudication is cached as an "uncertain" result
DebateFailedCached(c, d, cache_key, path, evidence_pool) ==
    [path |-> path, raised |-> TRUE, invoked |-> TRUE, result |-> Empty,
     cache |-> Put(c, cache_key, [verdict |-> "uncertain"]),
     disk |-> Put(c, cache_key, [verdict |-> "uncertain"]),
     evidence_pool |-> evidence_pool]

\* line 152 (run_debate raises) and line 168 (DebateResult rejects the
\* verdict): the exception leaves debate_claim_pair before anything is stored
DebateFailed(c, d, cache_key, path, evidence_pool) ==
    [path |-> path, raised |-> TRUE, invoked |-> TRUE, result |-> Empty,
     cache |-> c, disk |-> d, evidence_pool |-> evidence_pool]

\* Steps 2-6 of debate_claim_pair (lines 152-187), from the call of run_debate
\* on: c and d are the cache in memory and on disk when run_debate returns
Adjudicate(c, d, cache_key, evidence_pool, adjudicator) ==
    IF adjudicator.raises
    THEN DebateFailed(c, d, cache_key, "adjudicator_error", evidence_pool)
    ELSE IF adjudicator.verdict \notin Verdicts
    THEN DebateFailed(c, d, cache_key, "validation_error", evidence_pool)
    ELSE DebateDone(c, cache_key, "adjudicated",
                    AdjudicatedResult(adjudicator, evidence_pool), TRUE, evidence_pool)

\* EvidenceBasedDebate.debate_claim_pair as a function of the cache it finds
\* (c in memory, d on disk), the evidence the index returns and what the
\* adjudicator does.  The answer tells how the call ended (path), whether
\* run_debate was invoked, the result returned or that the call raised, and
\* the cache it leaves in memory and on disk.
DebateClaimPair(c, d, claim_a, claim_b, evidence_a, evidence_b, adjudicator) ==
    LET cache_key == GetCacheKey(claim_a.claim_id, claim_b.claim_id)
        pre == Prefilter(claim_a, claim_b)
        evidence_pool == evidence_a \o evidence_b
    IN  IF CacheHit(c, cache_key)
        THEN [path |-> "hit", raised |-> FALSE, invoked |-> FALSE, result |-> c[cache_key],
              cache |-> c, disk |-> d, evidence_pool |-> <<>>]
        ELSE IF pre = "low"
        THEN DebateDone(c, cache_key, "low", LowSimilarityResult, FALSE, <<>>)
        ELSE IF pre = "high"
        THEN DebateDone(c, cache_key, "high", HighSimilarityResult, FALSE, <<>>)
        ELSE Adjudicate(c, d, cache_key, evidence_pool, adjudicator)

\* ------------------------------------------------- adjudicator (inputs)
\* a transcript line that mentions an evidence id
Cite(id) == <<"s", "e", "e", " ">> \o id

\* What DebateAgents.run_debate may do for a pair: raise, or return a
\* verdict, a raw confidence and a transcript.  "orthogonal" is the verdict
\* agent_synthesizer falls back to.  The transcript of the "uncertain"
\* outcome mentions p_12, an id that begins with the id p_1 of claim tA.
AdjudicatorOutcomes(claim_a, claim_b) ==
    {[raises |-> TRUE, verdict |-> "unknown", confidence |-> 0, log |-> <<>>],
     [raises |-> FALSE, verdict |-> "refutes", confidence |-> (82 * Unit) \div 100,
      log |-> <<Cite(claim_a.claim_id), Cite(claim_b.claim_id)>>],
     [raises |-> FALSE, verdict |-> "supports", confidence |-> (95 * Unit) \div 100,
      log |-> <<Cite(ClaimId(<<"p">>, "tA")), Cite(ClaimId(<<"p">>, "tF"))>>],
     [raises |-> FALSE, verdict |-> "extends", confidence |-> (95 * Unit) \div 100,
      log |-> <<Cite(claim_a.claim_id)>>],
     [raises |-> FALSE, verdict |-> "uncertain", confidence |-> (50 * Unit) \div 100,
      log |-> <<Cite(ClaimId(<<"p">>, "tN"))>>],
     [raises |-> FALSE, verdict |-> "orthogonal", confidence |-> 0, log |-> <<>>]}

\* ------------------------------------------------- threads (initial state)
\* the worker threads that run debate_claim_pair at the same time
Savers == 1..NumSavers

\* the threads that use the model cache
Workers == 1..NumWorkers

\* no thread has started; the cache file does not exist; ModelCache.__init__
\* (lines 65-74): no model, no lock, no usage count, _cleanup_lock free
InitThreads ==
    /\ savers = [t \in Savers |-> [pc |-> "start", seen |-> {}]]
    /\ cache_file = [text |-> "absent", mapping |-> Empty]
    /\ model_cache = [models |-> {}, locks |-> Empty, usage_count |-> Empty,
                      cleanup_lock |-> 0]
    /\ workers = [w \in Workers |-> [pc |-> "idle", key |-> "", waited |-> 0]]

\* ------------------------------------------------------------ actions
\* the pipeline's services as UnifiedPipelineV2.__init__ builds them
InitPipeline ==
    /\ index = <<>>
    /\ id_to_index = Empty
    /\ index_to_id = Empty
    /\ id_to_metadata = Empty
    /\ cache = Empty
    /\ disk = Empty
    /\ first = Empty
    /\ last = [op |-> "init"]
    /\ backend_nodes = Empty
    /\ backend_edges = <<>>
    /\ nx_nodes = {}
    /\ nx_edges = Empty
    /\ stream = [pc |-> "idle", extracted |-> <<>>, claim_dicts |-> <<>>, yielded |-> 0,
                 out |-> <<>>]
    /\ tasks = <<>>
    /\ runs = 0
    /\ adjudicated = Empty
    /\ after_first = Empty
    /\ InitCalibration
    /\ InitThreads

\* the graph backend create_backend builds, of one of the types
InitBackend(types) ==
    /\ backend_type \in types
    /\ events = <<>>
    /\ commits = <<>>
    /\ graph_calls = 0

\* a path of the storage directory that no save has written yet
NoFile == [exists |-> FALSE]

\* DeduplicationEngine.__init__ on an empty storage directory
InitDedup(modes) ==
    /\ validation_mode \in modes
    /\ file_hashes = Empty
    /\ doi_mapping = Empty
    /\ arxiv_mapping = Empty
    /\ embedding_ids = <<>>
    /\ embedding_vectors = <<>>
    /\ dedup_disk = [file_hashes |-> NoFile, doi_mapping |-> NoFile,
                     arxiv_mapping |-> NoFile, embeddings |-> NoFile]
    /\ registrations = 0

Init == InitPipeline /\ InitBackend({"inmemory"}) /\ InitDedup({FALSE})

\* a caller indexes a claim: index_claim(cd['claim_id'], cd['specter2_embedding'], cd)
IndexClaim(cd, max_rows) ==
    /\ ntotal < max_rows
    /\ SetRetrieval(IndexAdd(RetrievalState, cd.claim_id, cd.specter2_embedding, cd))
    /\ last' = [op |-> "index", claim_id |-> cd.claim_id,
                present |-> cd.claim_id \in DOMAIN id_to_index, raised |-> FALSE]
    /\ UNCHANGED <<threadVars, dedupVars, calibVars, debateVars, graphVars, streamVars>>

\* a caller runs search_by_embedding(embedding, top_k, min_similarity)
SearchCall(embedding, top_k, min_similarity) ==
    /\ \E results \in SearchByEmbedding(embedding, top_k, min_similarity) :
          last' = [op |-> "search", embedding |-> embedding, top_k |-> top_k,
                   min_similarity |-> min_similarity, results |-> results]
    /\ UNCHANGED <<threadVars, dedupVars, calibVars, retrievalVars, debateVars, graphVars, streamVars>>

\* whether debate_claim_pair(claim_a, claim_b) gets past Step 0 (lines 73-118)
ReachesDebate(claim_a, claim_b) ==
    /\ GetCacheKey(claim_a.claim_id, claim_b.claim_id) \notin DOMAIN cache
    /\ Prefilter(claim_a, claim_b) = "debate"

\* the evidence debate_claim_pair retrieves (lines 121-122), when it gets there
Evidence(claim_a, claim_b, claim) ==
    IF ReachesDebate(claim_a, claim_b)
    THEN Search(claim.text, 3, (7 * Unit) \div 10)
    ELSE {<<>>}

\* what run_debate does (line 152), when the call gets there
Adjudication(claim_a, claim_b) ==
    IF ReachesDebate(claim_a, claim_b)
    THEN AdjudicatorOutcomes(claim_a, claim_b)
    ELSE {[raises |-> FALSE, verdict |-> "unknown", confidence |-> 0, log |-> <<>>]}

\* a caller runs debate_claim_pair(claim_a, claim_b); the calls that return
\* are for at most max_pairs different pairs
DebateCallUpTo(claim_a, claim_b, max_pairs) ==
    \E evidence_a \in Evidence(claim_a, claim_b, claim_a),
       evidence_b \in Evidence(claim_a, claim_b, claim_b),
       adjudicator \in Adjudication(claim_a, claim_b) :
        LET out == DebateClaimPair(cache, disk, claim_a, claim_b,
                                   evidence_a, evidence_b, adjudicator)
            pair == {claim_a.claim_id, claim_b.claim_id}
        IN  /\ out.raised \/ Cardinality(DOMAIN first \cup {pair}) <= max_pairs
            /\ cache' = out.cache
            /\ disk' = out.disk
            /\ first' = IF out.raised \/ pair \in DOMAIN first THEN first
                        ELSE Put(first, pair, [result |-> out.result, a |-> claim_a.claim_id])
            /\ last' = [op |-> "debate", a |-> claim_a.claim_id, b |-> claim_b.claim_id,
                        path |-> out.path, raised |-> out.raised, invoked |-> out.invoked,
                        result |-> out.result, evidence_pool |-> out.evidence_pool,
                        known |-> pair \in DOMAIN first]
            /\ UNCHANGED <<threadVars, dedupVars, calibVars, retrievalVars, graphVars, streamVars>>

DebateCall(claim_a, claim_b) == DebateCallUpTo(claim_a, claim_b, MaxPairs)

\* the pair engine and the index it retrieves evidence from: claims tA and tF,
\* indexed once each, in this order
EvidenceClaims == <<ClaimDict(<<"p">>, "tA"), ClaimDict(<<"p">>, "tF")>>

IndexEvidence ==
    /\ ntotal < Len(EvidenceClaims)
    /\ IndexClaim(EvidenceClaims[ntotal + 1], Len(EvidenceClaims))

DebateClaimPairCall ==
    \E claim_a, claim_b \in DebateClaims :
        {claim_a.text, claim_b.text} \in DebatePairs /\ DebateCall(claim_a, claim_b)

Next == IndexEvidence \/ DebateClaimPairCall

Spec == Init /\ [][Next]_vars

\* claims of four papers whose ids contain "_": p, q_2_p, p_1_q and p again
\* give the claim ids p_1, q_2_p_4, p_1_q_2 and p_4
KeyPairs ==
    {<<ClaimDict(<<"p">>, "tA"), ClaimDict(<<"q", "_", "2", "_", "p">>, "tD")>>,
     <<ClaimDict(<<"p", "_", "1", "_", "q">>, "tB"), ClaimDict(<<"p">>, "tD")>>}

\* a caller debates one of these pairs, in either order
DebateKeyPair ==
    \E pair \in KeyPairs :
        \/ DebateCallUpTo(pair[1], pair[2], Cardinality(KeyPairs))
        \/ DebateCallUpTo(pair[2], pair[1], Cardinality(KeyPairs))

KeyNext == IndexEvidence \/ DebateKeyPair

KeySpec == Init /\ [][KeyNext]_vars

\* lines 121-122: self.retrieval.search raises (the embedder or the index
\* fails); nothing surrounds the two calls, so the exception leaves
\* debate_claim_pair before run_debate is called and before anything is stored
SearchFailed(c, d) ==
    [path |-> "retrieval_error", raised |-> TRUE, invoked |-> FALSE, result |-> Empty,
     cache |-> c, disk |-> d, evidence_pool |-> <<>>]

\* debate_claim_pair when retrieval.search raises: Step 0 is as ever, Step 1
\* fails
DebateClaimPairSearchFails(c, d, claim_a, claim_b) ==
    IF ~CacheHit(c, GetCacheKey(claim_a.claim_id, claim_b.claim_id))
       /\ Prefilter(claim_a, claim_b) = "debate"
    THEN SearchFailed(c, d)
    ELSE DebateClaimPair(c, d, claim_a, claim_b, <<>>, <<>>, [raises |-> TRUE])

\* a caller runs debate_claim_pair(claim_a, claim_b) while retrieval is failing
DebateCallSearchFails(claim_a, claim_b) ==
    LET out == DebateClaimPairSearchFails(cache, disk, claim_a, claim_b)
        pair == {claim_a.claim_id, claim_b.claim_id}
    IN  /\ out.raised \/ Cardinality(DOMAIN first \cup {pair}) <= MaxPairs
        /\ cache' = out.cache
        /\ disk' = out.disk
        /\ first' = IF out.raised \/ pair \in DOMAIN first THEN first
                    ELSE Put(first, pair, [result |-> out.result, a |-> claim_a.claim_id])
        /\ last' = [op |-> "debate", a |-> claim_a.claim_id, b |-> claim_b.claim_id,
                    path |-> out.path, raised |-> out.raised, invoked |-> out.invoked,
                    result |-> out.result, evidence_pool |-> out.evidence_pool,
                    known |-> pair \in DOMAIN first]
        /\ UNCHANGED <<threadVars, dedupVars, calibVars, retrievalVars, graphVars, streamVars>>

DebateWhileSearchFails ==
    \E claim_a, claim_b \in DebateClaims :
        {claim_a.text, claim_b.text} \in DebatePairs /\ DebateCallSearchFails(claim_a, claim_b)

SearchFaultNext == IndexEvidence \/ DebateClaimPairCall \/ DebateWhileSearchFails

SearchFaultSpec == Init /\ [][SearchFaultNext]_vars

\* the vector index alone
IndexOne == \E cd \in IndexClaims : IndexClaim(cd, MaxRows)

SearchOne == \E cd \in IndexClaims : SearchCall(cd.specter2_embedding, 1, 0)

IndexNext == IndexOne \/ SearchOne

IndexSpec == Init /\ [][IndexNext]_vars

\* ------------------------------------------------ graph and streaming
\* json.dumps of a value: a string, not the value
JsonDumps(v) == [json |-> v]

\* json.loads of what json.dumps wrote
JsonLoads(str) == str.json

\* the backend's tables and its event log as one value
Store ==
    [nodes |-> backend_nodes, edges |-> backend_edges, events |-> events,
     commits |-> commits]

\* the backend's tables and event log become st
SetStore(st) ==
    /\ backend_nodes' = st.nodes
    /\ backend_edges' = st.edges
    /\ events' = st.events
    /\ commits' = st.commits

\* what conn.execute may do with a statement of KuzuBackend: run it, or raise
ExecuteOutcomes == {"executes", "raises"}

\* f"{label.lower()}_id"
IdField(label) == IF label = "Claim" THEN "claim_id" ELSE "source_id"

\* KuzuBackend._log_event: one line appended to the event log
LogEvent(st, event_type, payload) ==
    [st EXCEPT !.events = Append(@, [type |-> event_type, payload |-> payload])]

\* add_node of the backend of type `type`: whether it raised, and the store it
\* leaves.  KuzuBackend creates the node with one statement, which raises when
\* the primary key is taken, and logs the event after it; InMemoryBackend sets
\* nodes[node_id] and keeps no event log.
BackendAddNode(st, type, label, properties, execute) ==
    LET id_field == IdField(label)
        node_id == IF id_field \in DOMAIN properties THEN properties[id_field] ELSE <<>>
        stored == [st EXCEPT !.nodes = Put(@, node_id, [label |-> label,
                                                        properties |-> properties]),
                             !.commits = Append(@, [write |-> "add_node", id |-> node_id])]
    IN  IF node_id = <<>> THEN [raised |-> TRUE, store |-> st, node_id |-> node_id]
        ELSE IF type = "inmemory" THEN [raised |-> FALSE, store |-> stored, node_id |-> node_id]
        ELSE IF execute = "raises" \/ node_id \in DOMAIN st.nodes
        THEN [raised |-> TRUE, store |-> st, node_id |-> node_id]
        ELSE [raised |-> FALSE,
              store |-> LogEvent(stored, "add_node",
                                 [label |-> label, properties |-> properties]),
              node_id |-> node_id]

\* add_edge of the backend of type `type`.  InMemoryBackend appends the edge.
\* KuzuBackend runs MATCH (a), (b) CREATE (a)-[r]->(b): an edge is created when
\* both nodes match, none otherwise, and the event is logged after the
\* statement in both cases.
BackendAddEdge(st, type, from_id, to_id, rel_type, properties, execute) ==
    LET matched == from_id \in DOMAIN st.nodes /\ to_id \in DOMAIN st.nodes
        edge_id == IF type = "inmemory" THEN from_id \o <<"-", rel_type, "-">> \o to_id
                   ELSE <<"rel", Len(st.edges)>>
        stored == [st EXCEPT !.edges = Append(@, [edge_id |-> edge_id, from |-> from_id,
                                                  to |-> to_id, type |-> rel_type,
                                                  properties |-> properties]),
                             !.commits = Append(@, [write |-> "add_edge", id |-> edge_id,
                                                    from |-> from_id, to |-> to_id])]
        payload == [from_id |-> from_id, to_id |-> to_id, rel_type |-> rel_type,
                    properties |-> properties]
    IN  IF type = "inmemory" THEN [raised |-> FALSE, store |-> stored, edge_id |-> edge_id]
        ELSE IF execute = "raises" THEN [raised |-> TRUE, store |-> st, edge_id |-> <<>>]
        ELSE IF matched
        THEN [raised |-> FALSE, store |-> LogEvent(stored, "add_edge", payload),
              edge_id |-> edge_id]
        ELSE [raised |-> FALSE, store |-> LogEvent(st, "add_edge", payload),
              edge_id |-> <<>>]

\* CausalGraphV2.add_claim: the node is written to the backend, then added to
\* the DiGraph mirror
AddClaim(claim, execute) ==
    LET out == BackendAddNode(Store, backend_type, "Claim", claim, execute)
    IN  /\ SetStore(out.store)
        /\ nx_nodes' = IF out.raised THEN nx_nodes ELSE nx_nodes \cup {out.node_id}
        /\ UNCHANGED <<backend_type, nx_edges>>

\* CausalGraphV2.add_relationship: the edge is written to the backend, then set
\* in the DiGraph mirror, which holds one edge for an ordered pair of nodes
AddRelationship(from_id, to_id, debate_result, execute) ==
    LET edge_props == [relation_type |-> debate_result.verdict,
                       confidence |-> debate_result.confidence,
                       citations |-> JsonDumps(debate_result.citations),
                       debate_log |-> JsonDumps(debate_result.debate_log)]
        out == BackendAddEdge(Store, backend_type, from_id, to_id, "RELATES",
                              edge_props, execute)
    IN  /\ SetStore(out.store)
        /\ nx_nodes' = IF out.raised THEN nx_nodes ELSE nx_nodes \cup {from_id, to_id}
        /\ nx_edges' = IF out.raised THEN nx_edges
                       ELSE Put(nx_edges, <<from_id, to_id>>, edge_props)
        /\ UNCHANGED backend_type

\* the sequences of n nodes of the mirror that walk along its edges, taken in
\* either direction, without visiting a node twice
SimplePaths(n) ==
    {w \in [1..n -> nx_nodes] :
        /\ \A i, j \in 1..n : i # j => w[i] # w[j]
        /\ \A i \in 1..(n - 1) : <<w[i], w[i + 1]>> \in DOMAIN nx_edges
                                  \/ <<w[i + 1], w[i]>> \in DOMAIN nx_edges}

\* the paths from a to b in nx_graph.to_undirected()
PathsBetween(claim_a_id, claim_b_id) ==
    UNION {{w \in SimplePaths(n) : w[1] = claim_a_id /\ w[n] = claim_b_id} :
              n \in 1..Cardinality(nx_nodes)}

\* CausalGraphV2.get_evidence_path: what the call may do.  nx.shortest_path
\* raises NodeNotFound for an id that is not a node of the graph, which the
\* handler (except nx.NetworkXNoPath) does not catch; it returns one of the
\* shortest paths when there are several.
GetEvidencePath(claim_a_id, claim_b_id) ==
    LET paths == PathsBetween(claim_a_id, claim_b_id)
        shortest == {w \in paths : \A x \in paths : Len(w) <= Len(x)}
    IN  IF ~({claim_a_id, claim_b_id} \subseteq nx_nodes)
        THEN {[raised |-> TRUE, path |-> <<>>]}
        ELSE IF paths = {} THEN {[raised |-> FALSE, path |-> <<>>]}
        ELSE {[raised |-> FALSE, path |-> w] : w \in shortest}

\* CausalGraphV2.find_contradictions: the edges of the mirror that refute with
\* at least min_confidence, as (from, to, citations)
FindContradictions(min_confidence) ==
    {<<e[1], e[2], JsonLoads(nx_edges[e].citations)>> :
        e \in {d \in DOMAIN nx_edges :
                 /\ nx_edges[d].relation_type = "refutes"
                 /\ nx_edges[d].confidence >= min_confidence}}

\* lines 242-247 and 250 of should_debate_claims: the answer, given the
\* results of the search
ShouldDebateGiven(results, claim_b) ==
    LET match == {n \in 1..Len(results) : results[n].claim_id = claim_b.claim_id}
    IN  IF match # {}
        THEN results[CHOOSE n \in match : \A m \in match : n <= m].similarity_score * 10
                 > 6 * Unit
        ELSE TRUE

\* what should_debate_claims gets from the index for claim_a (lines 236-240);
\* no search when claim_a has no embedding
ShouldDebateResults(claim_a) ==
    IF "specter2_embedding" \in DOMAIN claim_a
    THEN SearchByEmbedding(claim_a.specter2_embedding, 10, 0)
    ELSE {<<>>}

\* EvidenceBasedDebate.should_debate_claims: the answers it may give
ShouldDebateClaims(claim_a, claim_b) ==
    {ShouldDebateGiven(results, claim_b) : results \in ShouldDebateResults(claim_a)}

\* the loop of _async_debate_claim over what is left of similar_claims[:2],
\* up to the next debate it awaits: the lists that may be left, the entry
\* to debate first; <<>> when the loop ends
RECURSIVE LoopTo(_, _)
LoopTo(c_dict, todo) ==
    IF todo = <<>> THEN {<<>>}
    ELSE LET similar == Head(todo)
             answers == ShouldDebateClaims(c_dict, similar.metadata)
         IN  IF similar.claim_id = c_dict.claim_id THEN LoopTo(c_dict, Tail(todo))
             ELSE (IF TRUE \in answers THEN {todo} ELSE {})
                  \cup (IF FALSE \in answers THEN LoopTo(c_dict, Tail(todo)) ELSE {})

\* the papers the extractor is given: two claims each
Papers == {<<"tA", "tF">>, <<"tA", "tB">>}

\* lines 120-125: the claim dicts of a paper
ClaimDictsOf(paper) == [n \in 1..Len(paper) |-> ClaimDict(<<"p">>, paper[n])]

\* lines 128-136: the claim dicts are indexed in order; the try surrounds
\* the loop, so the first index_claim that raises ends it and the handler
\* logs the error
RECURSIVE BulkIndex(_, _)
BulkIndex(ix, claim_dicts) ==
    IF claim_dicts = <<>> THEN ix
    ELSE IF WrongDimension(Head(claim_dicts).specter2_embedding) THEN ix
    ELSE BulkIndex(IndexAdd(ix, Head(claim_dicts).claim_id,
                            Head(claim_dicts).specter2_embedding, Head(claim_dicts)),
                   Tail(claim_dicts))

\* what run_debate does for a pair the stream debates
StreamOutcomes(claim_a, claim_b) ==
    {o \in AdjudicatorOutcomes(claim_a, claim_b) : o.verdict \in {"unknown", "refutes", "supports"}}

\* mutant: the claim is handed over ahead of the claims yielded before it
YieldInFront(out, c_dict) == <<c_dict>> \o out

\* yield c_dict (line 141): what the consumer has received so far
Yield(out, c_dict) == Append(out, c_dict)

\* process_paper_stream up to its first yield: the claims are extracted, given
\* their ids and indexed, and the first claim is yielded.  A paper is run
\* again as it was run before.
StreamStart(paper) ==
    /\ stream.pc = "idle"
    /\ runs < MaxRuns
    /\ runs > 0 => ClaimDictsOf(paper) = stream.claim_dicts
    /\ SetRetrieval(BulkIndex(RetrievalState, ClaimDictsOf(paper)))
    /\ stream' = [pc |-> "suspended", extracted |-> paper,
                  claim_dicts |-> ClaimDictsOf(paper), yielded |-> 1,
                  out |-> Yield(<<>>, ClaimDictsOf(paper)[1])]
    /\ tasks' = <<>>
    /\ UNCHANGED <<threadVars, dedupVars, calibVars, debateVars, last, graphVars, runs, adjudicated, after_first>>

\* the consumer asks for the next claim: the task of the claim just yielded is
\* created, and the next claim is yielded or the generator goes on to gather
StreamResume ==
    /\ stream.pc = "suspended"
    /\ tasks' = Append(tasks, [c_dict |-> stream.claim_dicts[stream.yielded],
                               pc |-> "created", similar_claims |-> <<>>,
                               todo |-> <<>>, result |-> Empty])
    /\ stream' = IF stream.yielded < Len(stream.claim_dicts)
                 THEN [stream EXCEPT !.yielded = @ + 1,
                                     !.out = Yield(@, stream.claim_dicts[stream.yielded + 1])]
                 ELSE [stream EXCEPT !.pc = "gathering"]
    /\ UNCHANGED <<threadVars, dedupVars, calibVars, retrievalVars, debateVars, last, graphVars, runs, adjudicated, after_first>>

\* mutant: the tasks are left to run and the generator returns at once
GatherReturnsAtOnce(debate_tasks) == TRUE

\* await asyncio.gather(*debate_tasks) returns once every task has ended;
\* no task raises, _async_debate_claim catches what its body raises
GatherReturns(debate_tasks) ==
    \A i \in 1..Len(debate_tasks) : debate_tasks[i].pc = "done"

\* the generator returns from gather and ends
StreamFinish ==
    /\ stream.pc = "gathering"
    /\ GatherReturns(tasks)
    /\ stream' = [stream EXCEPT !.pc = "idle"]
    /\ runs' = runs + 1
    /\ after_first' = IF runs = 0
                      THEN [backend_edges |-> backend_edges, nx_edges |-> nx_edges,
                            cache |-> cache]
                      ELSE after_first
    /\ UNCHANGED <<threadVars, dedupVars, calibVars, retrievalVars, debateVars, last, graphVars, tasks, adjudicated>>

\* the task goes on to the next debate it awaits, or ends
TaskGoesOn(i, task, todo) ==
    tasks' = [tasks EXCEPT ![i] = [task EXCEPT !.todo = todo, !.result = Empty,
                                               !.pc = IF todo = <<>> THEN "done"
                                                      ELSE "lookup"]]

\* similar_claims[:2] (line 166): what the loop of _async_debate_claim goes over
TopTwo(similar_claims) == SubSeq(similar_claims, 1, Min(2, Len(similar_claims)))

\* _async_debate_claim from its start: the search, then the loop up to the
\* first debate handed to a thread
TaskStart(i) ==
    /\ tasks[i].pc = "created"
    /\ IF SearchRaises(tasks[i].c_dict.specter2_embedding)
       THEN TaskGoesOn(i, tasks[i], <<>>)
       ELSE \E similar_claims \in SearchByEmbedding(tasks[i].c_dict.specter2_embedding, 5,
                                                    (6 * Unit) \div 10) :
              \E todo \in LoopTo(tasks[i].c_dict, TopTwo(similar_claims)) :
                  TaskGoesOn(i, [tasks[i] EXCEPT !.similar_claims = similar_claims], todo)
    /\ UNCHANGED <<threadVars, dedupVars, calibVars, retrievalVars, debateVars, last, graphVars, stream, runs,
                   adjudicated, after_first>>

\* the thread of debate_claim_pair, Step 0: the cache lookup and the
\* pre-filter; past them Step 1 follows and run_debate is called
ThreadLookup(i) ==
    LET claim_a == tasks[i].c_dict
        claim_b == Head(tasks[i].todo).metadata
        pair == {claim_a.claim_id, claim_b.claim_id}
        out == DebateClaimPair(cache, disk, claim_a, claim_b, <<>>, <<>>,
                               [raises |-> TRUE])
    IN  /\ tasks[i].pc = "lookup"
        /\ IF ReachesDebate(claim_a, claim_b)
           THEN /\ tasks' = [tasks EXCEPT ![i] = [@ EXCEPT !.pc = "adjudicating"]]
                /\ adjudicated' = Put(adjudicated, pair,
                      IF pair \in DOMAIN adjudicated THEN adjudicated[pair] + 1 ELSE 1)
                /\ UNCHANGED <<cache, disk>>
           ELSE /\ tasks' = [tasks EXCEPT ![i] = [@ EXCEPT !.pc = "returned",
                                                           !.result = out.result]]
                /\ cache' = out.cache
                /\ disk' = out.disk
                /\ UNCHANGED adjudicated
        /\ UNCHANGED <<threadVars, dedupVars, calibVars, retrievalVars, first, last, graphVars, stream, runs, after_first>>

\* the thread of debate_claim_pair when run_debate ends: the result is built,
\* stored and returned, or the exception ends the task, whose handler logs it
ThreadAdjudicated(i) ==
    LET claim_a == tasks[i].c_dict
        claim_b == Head(tasks[i].todo).metadata
        cache_key == GetCacheKey(claim_a.claim_id, claim_b.claim_id)
    IN  /\ tasks[i].pc = "adjudicating"
        /\ \E evidence_a \in Search(claim_a.text, 3, (7 * Unit) \div 10),
              evidence_b \in Search(claim_b.text, 3, (7 * Unit) \div 10),
              adjudicator \in StreamOutcomes(claim_a, claim_b) :
              LET out == Adjudicate(cache, disk, cache_key, evidence_a \o evidence_b,
                                    adjudicator)
              IN  /\ tasks' = [tasks EXCEPT ![i] =
                        IF out.raised THEN [@ EXCEPT !.pc = "done", !.todo = <<>>]
                        ELSE [@ EXCEPT !.pc = "returned", !.result = out.result]]
                  /\ cache' = out.cache
                  /\ disk' = out.disk
        /\ UNCHANGED <<threadVars, dedupVars, calibVars, retrievalVars, first, last, graphVars, stream, runs,
                       adjudicated, after_first>>

\* the task gets the result of the thread: the edge is added and the loop
\* goes on
TaskResume(i) ==
    /\ tasks[i].pc = "returned"
    /\ AddRelationship(tasks[i].c_dict.claim_id, Head(tasks[i].todo).claim_id,
                       tasks[i].result, "executes")
    /\ UNCHANGED graph_calls
    /\ \E todo \in LoopTo(tasks[i].c_dict, Tail(tasks[i].todo)) :
          TaskGoesOn(i, tasks[i], todo)
    /\ UNCHANGED <<threadVars, dedupVars, calibVars, retrievalVars, debateVars, last, stream, runs, adjudicated, after_first>>

StartStream == \E paper \in Papers : StreamStart(paper)

StartTask == \E i \in 1..Len(tasks) : TaskStart(i)

LookupInThread == \E i \in 1..Len(tasks) : ThreadLookup(i)

AdjudicateInThread == \E i \in 1..Len(tasks) : ThreadAdjudicated(i)

ResumeTask == \E i \in 1..Len(tasks) : TaskResume(i)

StreamNext ==
    \/ StartStream
    \/ StreamResume
    \/ StreamFinish
    \/ StartTask
    \/ LookupInThread
    \/ AdjudicateInThread
    \/ ResumeTask

StreamSpec == Init /\ [][StreamNext]_vars

\* the consumer keeps asking for the next claim, the event loop runs every
\* task that can run, every thread runs on, and every call of run_debate
\* returns or raises
StreamFairness ==
    /\ WF_vars(StreamResume)
    /\ WF_vars(StreamFinish)
    /\ WF_vars(StartTask)
    /\ WF_vars(LookupInThread)
    /\ WF_vars(AdjudicateInThread)
    /\ WF_vars(ResumeTask)

StreamLiveSpec == StreamSpec /\ StreamFairness

\* ------------------------------------------------------- deduplication
\* similarity_threshold of check_duplicate, 0.95, as a fraction
ThresholdNum == 19
ThresholdDen == 20

IsDigit(c) == \E n \in 1..10 : DigitChar[n] = c

\* int() of a string of digits
RECURSIVE ToInt(_)
ToInt(ds) ==
    IF ds = <<>> THEN 0
    ELSE 10 * ToInt(SubSeq(ds, 1, Len(ds) - 1))
         + (CHOOSE n \in 0..9 : DigitChar[n + 1] = ds[Len(ds)])

\* str.strip() of blanks
RECURSIVE Strip(_)
Strip(str) ==
    IF str = <<>> THEN str
    ELSE IF Head(str) = " " THEN Strip(Tail(str))
    ELSE IF str[Len(str)] = " " THEN Strip(SubSeq(str, 1, Len(str) - 1))
    ELSE str

\* how many digits stand in str from position i on
RECURSIVE DigitsFrom(_, _)
DigitsFrom(str, i) ==
    IF i <= Len(str) /\ IsDigit(str[i]) THEN 1 + DigitsFrom(str, i + 1) ELSE 0

\* re.search(r'(\d{4}\.\d{4,5})(v\d+)?', url): base and version of the
\* leftmost match joined, <<>> without a match
ArxivIdInUrl(url) ==
    LET starts == {i \in 1..Len(url) :
                     /\ DigitsFrom(url, i) >= 4
                     /\ i + 4 <= Len(url) /\ url[i + 4] = "."
                     /\ DigitsFrom(url, i + 5) >= 4}
    IN  IF starts = {} THEN <<>>
        ELSE LET i == CHOOSE x \in starts : \A y \in starts : x <= y
                 after == IF DigitsFrom(url, i + 5) >= 5 THEN 5 ELSE 4
                 stop == i + 4 + after
                 version == IF stop + 1 <= Len(url) /\ url[stop + 1] = "v"
                               /\ DigitsFrom(url, stop + 2) >= 1
                            THEN 1 + DigitsFrom(url, stop + 2) ELSE 0
             IN  SubSeq(url, i, stop + version)

\* DeduplicationEngine._extract_arxiv_id for metadata with the keys
\* 'arxiv_id' and 'url'; <<>> stands for None
ExtractArxivId(metadata) ==
    IF metadata.arxiv_id # <<>> THEN Strip(metadata.arxiv_id)
    ELSE IF IsSubstring(<<"a", "r", "x", "i", "v", ".", "o", "r", "g">>, metadata.url)
    THEN ArxivIdInUrl(metadata.url)
    ELSE <<>>

\* mutant: the version is always read as 1
ParseArxivVersionAlwaysOne(arxiv_id) == <<arxiv_id, 1>>

\* DeduplicationEngine._parse_arxiv_version: re.match(r'(.+)v(\d+)$') splits
\* at the last "v" when only digits follow it
ParseArxivVersion(arxiv_id) ==
    LET vs == {i \in 2..(Len(arxiv_id) - 1) :
                 /\ arxiv_id[i] = "v"
                 /\ DigitsFrom(arxiv_id, i + 1) = Len(arxiv_id) - i}
    IN  IF vs = {} THEN <<arxiv_id, 1>>
        ELSE LET i == CHOOSE x \in vs : TRUE
             IN  <<SubSeq(arxiv_id, 1, i - 1), ToInt(SubSeq(arxiv_id, i + 1, Len(arxiv_id)))>>

\* the tables of the engine as one value
Registry ==
    [file_hashes |-> file_hashes, doi_mapping |-> doi_mapping,
     arxiv_mapping |-> arxiv_mapping, embedding_ids |-> embedding_ids,
     embedding_vectors |-> embedding_vectors]

\* the tables of the engine become reg
SetRegistry(reg) ==
    /\ file_hashes' = reg.file_hashes
    /\ doi_mapping' = reg.doi_mapping
    /\ arxiv_mapping' = reg.arxiv_mapping
    /\ embedding_ids' = reg.embedding_ids
    /\ embedding_vectors' = reg.embedding_vectors

\* compute_file_hash: two of the files have the same bytes
FileHash == [a_pdf |-> "h1", a_copy_pdf |-> "h1", b_pdf |-> "h2", c_pdf |-> "h3"]

\* DuplicateResult with its defaults
DuplicateResult(status, existing_id, similarity_score, should_replace, version_info) ==
    [status |-> status, existing_id |-> existing_id,
     similarity_score |-> similarity_score, should_replace |-> should_replace,
     version_info |-> version_info]

\* _apply_validation_mode of check_duplicate
ApplyValidationMode(mode, result) ==
    IF mode /\ result.status # "NEW"
    THEN DuplicateResult("NEW", "None", "None", FALSE, result.version_info)
    ELSE result

\* the row np.argmax picks: the first of the rows most similar to the
\* embedding (cosines compared by their squares; no component is negative)
MaxSimIdx(reg, embedding) ==
    LET rows == 1..Len(reg.embedding_vectors)
        dot(i) == Dot(embedding, reg.embedding_vectors[i])
        norm(i) == Dot(reg.embedding_vectors[i], reg.embedding_vectors[i])
        above(i, j) == dot(i) * dot(i) * norm(j) > dot(j) * dot(j) * norm(i)
        best == {i \in rows : \A j \in rows : ~above(j, i)}
    IN  CHOOSE i \in best : \A j \in best : i <= j

\* cosine_similarity(u, v) >= similarity_threshold
CosineAtLeastThreshold(u, v) ==
    Dot(u, v) * Dot(u, v) * ThresholdDen * ThresholdDen
        >= ThresholdNum * ThresholdNum * Dot(u, u) * Dot(v, v)

\* mutant: the DOI is looked up before the file hash
CheckDuplicateDoiFirst(reg, mode, file_path, metadata, embedding) ==
    LET file_hash == FileHash[file_path]
        doi == metadata.doi
        arxiv_id == ExtractArxivId(metadata)
        parsed == ParseArxivVersion(arxiv_id)
        base_id == parsed[1]
        new_version == parsed[2]
    IN  IF doi # <<>> /\ doi \in DOMAIN reg.doi_mapping
        THEN ApplyValidationMode(mode,
                DuplicateResult("DOI_DUPLICATE", reg.doi_mapping[doi], "None", FALSE, Empty))
        ELSE IF file_hash \in DOMAIN reg.file_hashes
        THEN ApplyValidationMode(mode,
                DuplicateResult("EXACT_DUPLICATE", reg.file_hashes[file_hash], "None", FALSE,
                                Empty))
        ELSE IF arxiv_id # <<>> /\ base_id \in DOMAIN reg.arxiv_mapping
        THEN LET existing_id == reg.arxiv_mapping[base_id].paper_id
                 existing_version == reg.arxiv_mapping[base_id].version
             IN  IF new_version > existing_version
                 THEN ApplyValidationMode(mode,
                         DuplicateResult("VERSION_UPDATE", existing_id, "None", TRUE,
                                         [arxiv_id |-> base_id,
                                          old_version |-> existing_version,
                                          new_version |-> new_version,
                                          old_paper_id |-> existing_id]))
                 ELSE ApplyValidationMode(mode,
                         DuplicateResult("EXACT_DUPLICATE", existing_id, "None", FALSE, Empty))
        ELSE IF embedding # <<>> /\ Len(reg.embedding_vectors) > 0
                /\ CosineAtLeastThreshold(embedding,
                                          reg.embedding_vectors[MaxSimIdx(reg, embedding)])
        THEN LET max_sim_idx == MaxSimIdx(reg, embedding)
                 row == reg.embedding_vectors[max_sim_idx]
             IN  DuplicateResult("SEMANTIC_DUPLICATE", reg.embedding_ids[max_sim_idx],
                                 [dot |-> Dot(embedding, row),
                                  norms_sq |-> Dot(embedding, embedding) * Dot(row, row)],
                                 FALSE, Empty)
        ELSE DuplicateResult("NEW", "None", "None", FALSE, Empty)

\* DeduplicationEngine.check_duplicate with the default similarity_threshold:
\* the result it returns for the tables reg
CheckDuplicate(reg, mode, file_path, metadata, embedding) ==
    LET file_hash == FileHash[file_path]
        doi == metadata.doi
        arxiv_id == ExtractArxivId(metadata)
        parsed == ParseArxivVersion(arxiv_id)
        base_id == parsed[1]
        new_version == parsed[2]
    IN  IF file_hash \in DOMAIN reg.file_hashes
        THEN ApplyValidationMode(mode,
                DuplicateResult("EXACT_DUPLICATE", reg.file_hashes[file_hash], "None", FALSE,
                                Empty))
        ELSE IF doi # <<>> /\ doi \in DOMAIN reg.doi_mapping
        THEN ApplyValidationMode(mode,
                DuplicateResult("DOI_DUPLICATE", reg.doi_mapping[doi], "None", FALSE, Empty))
        ELSE IF arxiv_id # <<>> /\ base_id \in DOMAIN reg.arxiv_mapping
        THEN LET existing_id == reg.arxiv_mapping[base_id].paper_id
                 existing_version == reg.arxiv_mapping[base_id].version
             IN  IF new_version > existing_version
                 THEN ApplyValidationMode(mode,
                         DuplicateResult("VERSION_UPDATE", existing_id, "None", TRUE,
                                         [arxiv_id |-> base_id,
                                          old_version |-> existing_version,
                                          new_version |-> new_version,
                                          old_paper_id |-> existing_id]))
                 ELSE ApplyValidationMode(mode,
                         DuplicateResult("EXACT_DUPLICATE", existing_id, "None", FALSE, Empty))
        ELSE IF embedding # <<>> /\ Len(reg.embedding_vectors) > 0
                /\ CosineAtLeastThreshold(embedding,
                                          reg.embedding_vectors[MaxSimIdx(reg, embedding)])
        THEN LET max_sim_idx == MaxSimIdx(reg, embedding)
                 row == reg.embedding_vectors[max_sim_idx]
             IN  DuplicateResult("SEMANTIC_DUPLICATE", reg.embedding_ids[max_sim_idx],
                                 [dot |-> Dot(embedding, row),
                                  norms_sq |-> Dot(embedding, embedding) * Dot(row, row)],
                                 FALSE, Empty)
        ELSE DuplicateResult("NEW", "None", "None", FALSE, Empty)

\* mutant: check_duplicate records the file hash it computed
AfterCheckRecordingHash(reg, file_path) ==
    [reg EXCEPT !.file_hashes = Put(@, FileHash[file_path], "None")]

\* the tables check_duplicate leaves: it assigns to none of them
AfterCheck(reg, file_path) == reg

\* DeduplicationEngine.register_paper: the tables it leaves.  The time of
\* registration it stores with the arXiv row is left out.
RegisterPaper(reg, paper_id, file_path, metadata, embedding) ==
    LET arxiv_id == ExtractArxivId(metadata)
        parsed == ParseArxivVersion(arxiv_id)
    IN  [file_hashes |-> Put(reg.file_hashes, FileHash[file_path], paper_id),
         doi_mapping |-> IF metadata.doi # <<>>
                         THEN Put(reg.doi_mapping, metadata.doi, paper_id)
                         ELSE reg.doi_mapping,
         arxiv_mapping |-> IF arxiv_id # <<>>
                           THEN Put(reg.arxiv_mapping, parsed[1],
                                    [paper_id |-> paper_id, version |-> parsed[2]])
                           ELSE reg.arxiv_mapping,
         embedding_ids |-> IF embedding # <<>> THEN Append(reg.embedding_ids, paper_id)
                           ELSE reg.embedding_ids,
         embedding_vectors |-> IF embedding # <<>>
                               THEN Append(reg.embedding_vectors, embedding)
                               ELSE reg.embedding_vectors]

\* the files register_paper writes
RegisterSaves(files, reg, metadata, embedding) ==
    [file_hashes |-> reg.file_hashes,
     doi_mapping |-> IF metadata.doi # <<>> THEN reg.doi_mapping ELSE files.doi_mapping,
     arxiv_mapping |-> IF ExtractArxivId(metadata) # <<>> THEN reg.arxiv_mapping
                       ELSE files.arxiv_mapping,
     embeddings |-> IF embedding # <<>>
                    THEN [ids |-> reg.embedding_ids, vectors |-> reg.embedding_vectors]
                    ELSE files.embeddings]

\* {k: pid for k, pid in f.items() if pid != paper_id}
WithoutPaper(f, paper_id) == [k \in {x \in DOMAIN f : f[x] # paper_id} |-> f[k]]

\* seq without its element at position idx
Pop(seq, idx) == SubSeq(seq, 1, idx - 1) \o SubSeq(seq, idx + 1, Len(seq))

\* DeduplicationEngine.remove_paper: the tables it leaves
RemovePaper(reg, paper_id) ==
    LET at == {i \in 1..Len(reg.embedding_ids) : reg.embedding_ids[i] = paper_id}
        idx == CHOOSE i \in at : \A j \in at : i <= j
    IN  [file_hashes |-> WithoutPaper(reg.file_hashes, paper_id),
         doi_mapping |-> WithoutPaper(reg.doi_mapping, paper_id),
         arxiv_mapping |-> reg.arxiv_mapping,
         embedding_ids |-> IF at # {} THEN Pop(reg.embedding_ids, idx)
                           ELSE reg.embedding_ids,
         embedding_vectors |-> IF at # {} THEN Pop(reg.embedding_vectors, idx)
                               ELSE reg.embedding_vectors]

\* the files remove_paper writes
RemoveSaves(files, before, reg) ==
    [file_hashes |-> reg.file_hashes,
     doi_mapping |-> reg.doi_mapping,
     arxiv_mapping |-> files.arxiv_mapping,
     embeddings |-> IF Len(reg.embedding_ids) < Len(before.embedding_ids)
                       /\ Len(reg.embedding_ids) > 0
                    THEN [ids |-> reg.embedding_ids, vectors |-> reg.embedding_vectors]
                    ELSE files.embeddings]

\* path.exists(): a file that was never written is NoFile
\* _load_json(path, default) (lines 172-177): the document in the file, or
\* the default when there is no file
Exists(file) == file # NoFile

LoadJson(file, default) == IF Exists(file) THEN file ELSE default

\* DeduplicationEngine.__init__ (lines 106-117) on the storage directory
\* files: the tables a new engine starts with
LoadRegistry(files) ==
    [file_hashes |-> LoadJson(files.file_hashes, Empty),
     doi_mapping |-> LoadJson(files.doi_mapping, Empty),
     arxiv_mapping |-> LoadJson(files.arxiv_mapping, Empty),
     embedding_ids |-> IF Exists(files.embeddings)
                       THEN files.embeddings.ids ELSE <<>>,
     embedding_vectors |-> IF Exists(files.embeddings)
                           THEN files.embeddings.vectors ELSE <<>>]

\* the papers handed to the engine.  eA and eC are closer than the threshold
\* (cosine 0.958), eB is orthogonal to eA.
ArxivBase == <<"2", "1", "0", "3", ".", "1", "2", "3", "4", "5">>

ArxivUrl == <<"a", "r", "x", "i", "v", ".", "o", "r", "g", "/", "a", "b", "s", "/">>

Candidate(file_path, doi, arxiv_id, url, embedding) ==
    [file_path |-> file_path,
     metadata |-> [doi |-> doi, arxiv_id |-> arxiv_id, url |-> url],
     embedding |-> embedding]

Candidates ==
    {Candidate("a_pdf", <<"d1">>, ArxivBase, <<>>, <<10, 0>>),
     Candidate("b_pdf", <<"d1">>, ArxivBase \o <<"v", "2">>, <<>>, <<10, 3>>),
     Candidate("a_copy_pdf", <<"d2">>, <<>>, <<>>, <<>>),
     Candidate("b_pdf", <<"d2">>, <<>>, ArxivUrl \o ArxivBase \o <<"v", "1", "0">>, <<0, 10>>),
     Candidate("c_pdf", <<>>, <<" ">> \o ArxivBase \o <<"v", "2", " ">>, <<>>, <<>>),
     Candidate("c_pdf", <<>>, ArxivBase, <<>>, <<>>),
     Candidate("c_pdf", <<>>, <<>>, <<>>, <<10, 3>>),
     Candidate("c_pdf", <<>>, <<>>, <<>>, <<>>)}

PaperIds == {"P1", "P2"}

\* a caller runs check_duplicate(file_path, metadata, embedding)
CheckDuplicateCall ==
    /\ \E cand \in Candidates :
          /\ SetRegistry(AfterCheck(Registry, cand.file_path))
          /\ last' = [op |-> "check", candidate |-> cand,
                      result |-> CheckDuplicate(Registry, validation_mode, cand.file_path,
                                                cand.metadata, cand.embedding)]
    /\ UNCHANGED <<validation_mode, dedup_disk, registrations>>
    /\ UNCHANGED <<threadVars, retrievalVars, debateVars, graphVars, streamVars, calibVars>>

\* a caller runs register_paper(paper_id, file_path, metadata, embedding)
RegisterPaperCall ==
    /\ \E paper_id \in PaperIds, cand \in Candidates :
          LET reg == RegisterPaper(Registry, paper_id, cand.file_path, cand.metadata,
                                   cand.embedding)
          IN  /\ SetRegistry(reg)
              /\ dedup_disk' = RegisterSaves(dedup_disk, reg, cand.metadata, cand.embedding)
              /\ last' = [op |-> "register", paper_id |-> paper_id, candidate |-> cand]
    /\ registrations < MaxRegistrations
    /\ registrations' = registrations + 1
    /\ UNCHANGED validation_mode
    /\ UNCHANGED <<threadVars, retrievalVars, debateVars, graphVars, streamVars, calibVars>>

\* a caller runs remove_paper(paper_id)
RemovePaperCall ==
    /\ \E paper_id \in PaperIds :
          LET reg == RemovePaper(Registry, paper_id)
          IN  /\ SetRegistry(reg)
              /\ dedup_disk' = RemoveSaves(dedup_disk, Registry, reg)
              /\ last' = [op |-> "remove", paper_id |-> paper_id]
    /\ UNCHANGED <<validation_mode, registrations>>
    /\ UNCHANGED <<threadVars, retrievalVars, debateVars, graphVars, streamVars, calibVars>>

DedupInit == InitPipeline /\ InitBackend({"inmemory"}) /\ InitDedup(BOOLEAN)

DedupNext == CheckDuplicateCall \/ RegisterPaperCall \/ RemovePaperCall

DedupSpec == DedupInit /\ [][DedupNext]_vars

\* ------------------------------------------------- the graph, called directly
\* the claims and debate results a caller hands to the graph
GraphClaims ==
    {[claim_id |-> <<"c", "1">>, text |-> "A refutes B"],
     [claim_id |-> <<"c", "2">>, text |-> "B is true"]}

GraphResults ==
    {[verdict |-> "refutes", confidence |-> (90 * Unit) \div 100,
      citations |-> {<<"e", "1">>}, debate_log |-> <<>>],
     [verdict |-> "refutes", confidence |-> (80 * Unit) \div 100,
      citations |-> {}, debate_log |-> <<>>],
     [verdict |-> "supports", confidence |-> (90 * Unit) \div 100,
      citations |-> {<<"e", "2">>}, debate_log |-> <<>>]}

\* the min_confidence find_contradictions is asked with
MinConfidences == {(85 * Unit) \div 100, (90 * Unit) \div 100}

\* what conn.execute may do on the backend in use
Executions == IF backend_type = "kuzu" THEN ExecuteOutcomes ELSE {"executes"}

\* a caller runs graph.add_claim(claim) with one of claims
AddClaimOf(claims) ==
    /\ graph_calls < MaxGraphCalls
    /\ \E claim \in claims, execute \in Executions :
          /\ AddClaim(claim, execute)
          /\ last' = [op |-> "add_claim", claim_id |-> claim.claim_id,
                      raised |-> BackendAddNode(Store, backend_type, "Claim", claim,
                                                execute).raised]
    /\ graph_calls' = graph_calls + 1
    /\ UNCHANGED <<threadVars, retrievalVars, debateVars, streamVars, dedupVars, calibVars>>

AddClaimCall == AddClaimOf(GraphClaims)

\* a caller runs graph.add_relationship(from_id, to_id, debate_result) between
\* two of claims with one of results
AddRelationshipOf(claims, results) ==
    /\ graph_calls < MaxGraphCalls
    /\ \E a, b \in claims, debate_result \in results, execute \in Executions :
          /\ a # b
          /\ AddRelationship(a.claim_id, b.claim_id, debate_result, execute)
          /\ last' = [op |-> "add_relationship", from |-> a.claim_id, to |-> b.claim_id,
                      matched |-> {a.claim_id, b.claim_id} \subseteq DOMAIN backend_nodes,
                      stored |-> Len(backend_edges') > Len(backend_edges),
                      raised |-> execute = "raises"]
    /\ graph_calls' = graph_calls + 1
    /\ UNCHANGED <<threadVars, retrievalVars, debateVars, streamVars, dedupVars, calibVars>>

AddRelationshipCall == AddRelationshipOf(GraphClaims, GraphResults)

\* a caller runs graph.find_contradictions(min_confidence)
FindContradictionsCall ==
    /\ \E min_confidence \in MinConfidences :
          last' = [op |-> "find", min_confidence |-> min_confidence,
                   result |-> FindContradictions(min_confidence)]
    /\ UNCHANGED <<threadVars, retrievalVars, debateVars, graphVars, streamVars, dedupVars, calibVars>>

GraphInit == InitPipeline /\ InitBackend({"inmemory", "kuzu"}) /\ InitDedup({FALSE})

GraphNext == AddClaimCall \/ AddRelationshipCall \/ FindContradictionsCall

GraphSpec == GraphInit /\ [][GraphNext]_vars

\* ------------------------------------------------- the calibration layer
\* the raw confidences calibrate is asked for, and those of the validation
\* data train is given, in units of 1/RawScale
Raws == 0..RawScale

TrainRaws == {0, RawScale \div 2, RawScale}

\* validation data: up to MaxSamples pairs <<raw confidence, label>> with
\* label 0 or 1, listed by rising confidence and label
Samples ==
    UNION {{f \in [1..n -> TrainRaws \X {0, 1}] :
               \A i \in 1..(n - 1) :
                   \/ f[i][1] < f[i + 1][1]
                   \/ f[i][1] = f[i + 1][1] /\ f[i][2] <= f[i + 1][2]} :
              n \in 1..MaxSamples}

\* CalibrationLayer._save_model: a placeholder, the file is left as it is
SaveModel(file, model) == file

\* CalibrationLayer._load_model after calibrator = None, is_fitted = False:
\* the body under os.path.exists is `pass`, nothing is read
LoadModel(file) == [calibrator |-> "None", is_fitted |-> FALSE]

\* a caller runs train(raw_confidences, true_labels)
TrainCall ==
    /\ \E samples \in Samples :
          /\ calibrator' = Fit(samples)
          /\ model_file' = SaveModel(model_file, Fit(samples))
    /\ is_fitted' = TRUE
    /\ last' = [op |-> "train"]
    /\ UNCHANGED <<threadVars, dedupVars, retrievalVars, debateVars, graphVars, streamVars>>

\* a caller runs calibrate(raw_confidence)
CalibrateCall ==
    /\ \E raw \in Raws :
          last' = [op |-> "calibrate", raw |-> raw,
                   result |-> CalibrateWith(is_fitted, calibrator, raw)]
    /\ UNCHANGED <<threadVars, dedupVars, calibVars, retrievalVars, debateVars, graphVars, streamVars>>

\* the process restarts: CalibrationLayer(model_path) is constructed again
\* on the same model path
Restart ==
    /\ calibrator' = LoadModel(model_file).calibrator
    /\ is_fitted' = LoadModel(model_file).is_fitted
    /\ last' = [op |-> "restart", was_fitted |-> is_fitted, before |-> calibrator]
    /\ UNCHANGED <<threadVars, model_file, dedupVars, retrievalVars, debateVars, graphVars, streamVars>>

CalibNext == TrainCall \/ CalibrateCall \/ Restart

CalibSpec == Init /\ [][CalibNext]_vars

\* ------------------------------------------------- a stream closed early
\* the consumer closes the generator at a yield (aclose(), or the consumer is
\* cancelled and drops it): GeneratorExit is raised at the yield, which no
\* try or finally of process_paper_stream surrounds, so the generator ends
\* and the tasks it created stay scheduled on the event loop
StreamClose ==
    /\ stream.pc = "suspended"
    /\ stream' = [stream EXCEPT !.pc = "closed"]
    /\ UNCHANGED <<threadVars, dedupVars, calibVars, retrievalVars, debateVars, last, graphVars, tasks, runs,
                   adjudicated, after_first>>

CloseNext == StreamNext \/ StreamClose

CloseSpec == Init /\ [][CloseNext]_vars

\* ------------------------------------------------- a paper of many claims
\* a paper of five claims, each near the others; the adjudicator is slow,
\* none of its calls has returned yet
LongPaper == <<"tF", "tG", "tH", "tI", "tJ">>

StartLongStream == StreamStart(LongPaper)

FanOutNext == StartLongStream \/ StreamResume \/ StartTask \/ LookupInThread

FanOutSpec == Init /\ [][FanOutNext]_vars

\* ------------------------------------- debate_claim_pair in several threads
\* the pairs the threads debate, one pair each; each is settled by the
\* pre-filter (tA tB: similarity 1.0; tD tF and tD tG: below 0.3)
SaverPairs ==
    <<<<ClaimDict(<<"p">>, "tA"), ClaimDict(<<"p">>, "tB")>>,
      <<ClaimDict(<<"p">>, "tD"), ClaimDict(<<"p">>, "tF")>>,
      <<ClaimDict(<<"p">>, "tD"), ClaimDict(<<"p">>, "tG")>>>>

SaverKey(t) == GetCacheKey(SaverPairs[t][1].claim_id, SaverPairs[t][2].claim_id)

\* thread t runs debate_claim_pair up to self.cache[cache_key] = result.dict()
\* (lines 73-100 or 73-116)
SaverStore(t) ==
    LET out == DebateClaimPair(cache, disk, SaverPairs[t][1], SaverPairs[t][2],
                               <<>>, <<>>, [raises |-> TRUE])
    IN  /\ savers[t].pc = "start"
        /\ ~out.raised
        /\ cache' = out.cache
        /\ savers' = [savers EXCEPT ![t].pc = IF out.path = "hit" THEN "returned"
                                              ELSE "stored"]
        /\ UNCHANGED <<dedupVars, calibVars, retrievalVars, disk, first, last, graphVars,
                       streamVars, cache_file, model_cache, workers>>

\* _save_cache, open(self.cache_path, 'w') (line 54): the file is created or
\* truncated
SaverOpen(t) ==
    /\ savers[t].pc = "stored"
    /\ cache_file' = [text |-> "truncated", mapping |-> Empty]
    /\ savers' = [savers EXCEPT ![t].pc = "opened"]
    /\ UNCHANGED <<dedupVars, calibVars, retrievalVars, debateVars, last, graphVars,
                   streamVars, model_cache, workers>>

\* json.dump(self.cache, f) (line 55) begins to iterate over the dict the
\* threads share
SaverDumpBegin(t) ==
    /\ savers[t].pc = "opened"
    /\ savers' = [savers EXCEPT ![t].pc = "dumping", ![t].seen = DOMAIN cache]
    /\ UNCHANGED <<dedupVars, calibVars, retrievalVars, debateVars, last, graphVars,
                   streamVars, cache_file, model_cache, workers>>

\* json.dump ends and the with block closes the file: the text is complete,
\* or the dict changed size during the iteration, json.dump raises
\* RuntimeError and the file keeps the part written so far
SaverDumpEnd(t) ==
    /\ savers[t].pc = "dumping"
    /\ IF DOMAIN cache = savers[t].seen
       THEN /\ cache_file' = [text |-> "complete", mapping |-> cache]
            /\ savers' = [savers EXCEPT ![t].pc = "returned"]
       ELSE /\ cache_file' = [text |-> "partial", mapping |-> Empty]
            /\ savers' = [savers EXCEPT ![t].pc = "raised"]
    /\ UNCHANGED <<dedupVars, calibVars, retrievalVars, debateVars, last, graphVars,
                   streamVars, model_cache, workers>>

\* _load_cache (lines 39-48) of an engine that starts now: the mapping in the
\* file, or {} when the file is absent or its text is no JSON document
LoadCache ==
    /\ last' = [op |-> "load", text |-> cache_file.text,
                loaded |-> IF cache_file.text = "complete" THEN cache_file.mapping
                           ELSE Empty]
    /\ UNCHANGED <<dedupVars, calibVars, retrievalVars, debateVars, graphVars,
                   streamVars, threadVars>>

StoreInThread == \E t \in Savers : SaverStore(t)

OpenInThread == \E t \in Savers : SaverOpen(t)

DumpBeginInThread == \E t \in Savers : SaverDumpBegin(t)

DumpEndInThread == \E t \in Savers : SaverDumpEnd(t)

SaveNext ==
    \/ StoreInThread
    \/ OpenInThread
    \/ DumpBeginInThread
    \/ DumpEndInThread
    \/ LoadCache

SaveSpec == Init /\ [][SaveNext]_vars

\* ------------------------------------------------------- the model cache
\* the models the threads ask for
ModelKeys == {"bge_base", "bge_small"}

\* max_wait of cleanup (30 s) and of unload_model (10 s), in sleeps of the
\* waiting loop; the code sleeps 0.5 s, 60 and 20 times
CleanupMaxWait == 2
UnloadMaxWait == 1

\* the usage count of a model; 0 for a model that has none
UsageOf(mc, key) == IF key \in DOMAIN mc.usage_count THEN mc.usage_count[key] ELSE 0

\* get_model (lines 91-102) under _cleanup_lock: the model is loaded when it
\* is not cached, with a new lock and a usage count of 0; then the count is
\* incremented
GetModel(mc, key) ==
    LET loaded == IF key \in mc.models THEN mc
                  ELSE [mc EXCEPT !.models = @ \cup {key},
                                  !.locks = Put(@, key, 0),
                                  !.usage_count = Put(@, key, 0)]
    IN  [loaded EXCEPT !.usage_count = Put(@, key, loaded.usage_count[key] + 1)]

\* the tables without the entries of the keys in gone
Without(f, gone) == [k \in DOMAIN f \ gone |-> f[k]]

\* what unload_model (lines 144-149) and cleanup (lines 182-187) delete
Unloaded(mc, gone) ==
    [mc EXCEPT !.models = @ \ gone,
               !.locks = Without(@, gone),
               !.usage_count = Without(@, gone)]

\* everything but the model cache and its threads
ModelFrame ==
    UNCHANGED <<dedupVars, calibVars, retrievalVars, debateVars, graphVars, streamVars,
                savers, cache_file>>

\* get_mpnet, get_minilm, ... (lines 241-324): get_model called directly; the
\* count it increments is never decremented
GetModelCall(w, key) ==
    /\ workers[w].pc = "idle"
    /\ model_cache.cleanup_lock = 0
    /\ UsageOf(model_cache, key) < MaxUsage
    /\ model_cache' = GetModel(model_cache, key)
    /\ UNCHANGED <<workers, last>>
    /\ ModelFrame

\* use_model, line 114: get_model takes _cleanup_lock, loads or finds the
\* model, increments its count and releases the lock
UseModelGet(w, key) ==
    /\ workers[w].pc = "idle"
    /\ model_cache.cleanup_lock = 0
    /\ UsageOf(model_cache, key) < MaxUsage
    /\ model_cache' = GetModel(model_cache, key)
    /\ workers' = [workers EXCEPT ![w] = [pc |-> "got", key |-> key, waited |-> 0]]
    /\ UNCHANGED last
    /\ ModelFrame

\* use_model, lines 102 and 117: self._models[key] and self._locks[key] are
\* read without _cleanup_lock, and raise KeyError when the model was cleaned
\* up since; otherwise the thread waits for the model's lock and enters the
\* block
UseModelEnter(w) ==
    LET key == workers[w].key
    IN  /\ workers[w].pc = "got"
        /\ IF key \notin model_cache.models
           THEN /\ workers' = [workers EXCEPT ![w] = [pc |-> "idle", key |-> "", waited |-> 0]]
                /\ last' = [op |-> "use_model", key |-> key, raised |-> TRUE]
                /\ UNCHANGED model_cache
           ELSE /\ model_cache.locks[key] = 0
                /\ model_cache' = [model_cache EXCEPT !.locks[key] = w]
                /\ workers' = [workers EXCEPT ![w].pc = "using"]
                /\ UNCHANGED last
        /\ ModelFrame

\* use_model, lines 118-122: the block ends; finally takes _cleanup_lock and
\* decrements the count (KeyError when the count was cleaned up), then the
\* model's lock is released
UseModelExit(w) ==
    LET key == workers[w].key
        released == IF key \in DOMAIN model_cache.locks /\ model_cache.locks[key] = w
                    THEN [model_cache EXCEPT !.locks[key] = 0]
                    ELSE model_cache
    IN  /\ workers[w].pc = "using"
        /\ model_cache.cleanup_lock = 0
        /\ model_cache' =
              IF key \in DOMAIN model_cache.usage_count
              THEN [released EXCEPT !.usage_count[key] = @ - 1]
              ELSE released
        /\ workers' = [workers EXCEPT ![w] = [pc |-> "idle", key |-> "", waited |-> 0]]
        /\ last' = [op |-> "use_model", key |-> key,
                    raised |-> key \notin DOMAIN model_cache.usage_count]
        /\ ModelFrame

\* cleanup, line 164, and unload_model, lines 131-132: the thread takes
\* _cleanup_lock and keeps it to the end of the call.  key is "" for cleanup;
\* unload_model of a model that is not cached returns at once.
CleanupStart(w, key) ==
    /\ workers[w].pc = "idle"
    /\ model_cache.cleanup_lock = 0
    /\ IF key # "" /\ key \notin model_cache.models
       THEN UNCHANGED <<model_cache, workers>>
       ELSE /\ model_cache' = [model_cache EXCEPT !.cleanup_lock = w]
            /\ workers' = [workers EXCEPT ![w] = [pc |-> "waiting", key |-> key,
                                                   waited |-> 0]]
    /\ UNCHANGED last
    /\ ModelFrame

\* the models the call waits for and removes: every model, or the one named
Targets(w) ==
    IF workers[w].key = "" THEN model_cache.models \cup DOMAIN model_cache.usage_count
    ELSE {workers[w].key}

\* the condition of the waiting loop (lines 136 and 169)
StillUsed(w) == \E k \in Targets(w) : UsageOf(model_cache, k) > 0

\* max_wait of the call
MaxWaitOf(w) == IF workers[w].key = "" THEN CleanupMaxWait ELSE UnloadMaxWait

\* lines 136-141 and 169-178: a model is in use and the time is not up; the
\* thread sleeps, holding _cleanup_lock
CleanupSleep(w) ==
    /\ workers[w].pc = "waiting"
    /\ StillUsed(w)
    /\ workers[w].waited < MaxWaitOf(w)
    /\ workers' = [workers EXCEPT ![w].waited = @ + 1]
    /\ UNCHANGED <<model_cache, last>>
    /\ ModelFrame

\* lines 143-155 and 180-194: no model is in use, or the time is up; the
\* models are removed and _cleanup_lock is released
CleanupFinish(w) ==
    /\ workers[w].pc = "waiting"
    /\ ~StillUsed(w) \/ workers[w].waited >= MaxWaitOf(w)
    /\ model_cache' = [Unloaded(model_cache, Targets(w)) EXCEPT !.cleanup_lock = 0]
    /\ workers' = [workers EXCEPT ![w] = [pc |-> "idle", key |-> "", waited |-> 0]]
    /\ last' = [op |-> IF workers[w].key = "" THEN "cleanup" ELSE "unload_model",
                key |-> workers[w].key, in_use |-> StillUsed(w),
                waited |-> workers[w].waited, max_wait |-> MaxWaitOf(w)]
    /\ ModelFrame

GetModelDirectly == \E w \in Workers, key \in ModelKeys : GetModelCall(w, key)

UseModel == \E w \in Workers, key \in ModelKeys : UseModelGet(w, key)

EnterBlock == \E w \in Workers : UseModelEnter(w)

LeaveBlock == \E w \in Workers : UseModelExit(w)

StartCleanup == \E w \in Workers, key \in ModelKeys \cup {""} : CleanupStart(w, key)

SleepInCleanup == \E w \in Workers : CleanupSleep(w)

FinishCleanup == \E w \in Workers : CleanupFinish(w)

ModelNext ==
    \/ GetModelDirectly
    \/ UseModel
    \/ EnterBlock
    \/ LeaveBlock
    \/ StartCleanup
    \/ SleepInCleanup
    \/ FinishCleanup

ModelSpec == Init /\ [][ModelNext]_vars

\* ------------------------------------------------ should_debate_claims alone
\* a claim dict that carries no embedding
WithoutEmbedding(cd) == [k \in DOMAIN cd \ {"specter2_embedding"} |-> cd[k]]

\* a caller runs should_debate_claims(claim_a, claim_b)
ShouldDebateCall(claim_a, claim_b) ==
    /\ \E results \in ShouldDebateResults(claim_a) :
          last' = [op |-> "should_debate", a |-> claim_a, b |-> claim_b.claim_id,
                   results |-> results, answer |-> ShouldDebateGiven(results, claim_b)]
    /\ UNCHANGED <<threadVars, dedupVars, calibVars, retrievalVars, debateVars, graphVars, streamVars>>

ShouldDebateOne ==
    \E claim_a \in IndexClaims \cup {WithoutEmbedding(cd) : cd \in IndexClaims},
       claim_b \in IndexClaims :
        claim_a.claim_id # claim_b.claim_id /\ ShouldDebateCall(claim_a, claim_b)

ShouldDebateNext == IndexOne \/ ShouldDebateOne

ShouldDebateSpec == Init /\ [][ShouldDebateNext]_vars

\* ------------------------------------------- a claim that cannot be indexed
\* a paper of three claims; the embedding of the second has another
\* dimension than the index, so index_claim raises for it
FaultyPaper == <<"tA", "tN", "tF">>

StartFaultyStream == StreamStart(FaultyPaper)

FaultNext ==
    \/ StartFaultyStream
    \/ StreamResume
    \/ StreamFinish
    \/ StartTask
    \/ LookupInThread
    \/ AdjudicateInThread
    \/ ResumeTask

FaultSpec == Init /\ [][FaultNext]_vars

\* --------------------------------- a debate that fails with a neighbour left
\* claims of an earlier paper, indexed once each, in this order
EarlierClaims == <<ClaimDict(<<"q">>, "tF"), ClaimDict(<<"q">>, "tG")>>

IndexEarlier ==
    /\ ntotal < Len(EarlierClaims)
    /\ IndexClaim(EarlierClaims[ntotal + 1], Len(EarlierClaims))

\* a paper whose first claim cannot be indexed, so that none of its claims is:
\* the two nearest neighbours of its other claim are claims of the earlier
\* paper
RecoveryPaper == <<"tN", "tH">>

StartRecoveryStream == StreamStart(RecoveryPaper)

RecoveryNext ==
    \/ IndexEarlier
    \/ StartRecoveryStream
    \/ StreamResume
    \/ StreamFinish
    \/ StartTask
    \/ LookupInThread
    \/ AdjudicateInThread
    \/ ResumeTask

RecoverySpec == Init /\ [][RecoveryNext]_vars

\* ------------------------------------------------ evidence paths in the mirror
\* three claims and one debate result, on the in-memory backend
PathClaims ==
    GraphClaims \cup {[claim_id |-> <<"c", "3">>, text |-> "C extends B"]}

PathResults == {r \in GraphResults : r.verdict = "supports"}

AddPathClaim == AddClaimOf(PathClaims)

AddPathRelationship == AddRelationshipOf(PathClaims, PathResults)

\* a caller runs graph.get_evidence_path(claim_a_id, claim_b_id)
GetEvidencePathCall ==
    /\ \E a, b \in PathClaims :
          \E out \in GetEvidencePath(a.claim_id, b.claim_id) :
              last' = [op |-> "path", from |-> a.claim_id, to |-> b.claim_id,
                       raised |-> out.raised, result |-> out.path]
    /\ UNCHANGED <<threadVars, retrievalVars, debateVars, graphVars, streamVars, dedupVars, calibVars>>

PathInit == InitPipeline /\ InitBackend({"inmemory"}) /\ InitDedup({FALSE})

PathNext == AddPathClaim \/ AddPathRelationship \/ GetEvidencePathCall

PathSpec == PathInit /\ [][PathNext]_vars

\* ===================================================== properties: Spec
PairOfLast == {last.a, last.b}

SimOfLast ==
    Dot(ClaimOf(last.a).specter2_embedding, ClaimOf(last.b).specter2_embedding)

\* C1  Cache symmetry: once a call for the unordered pair {a, b} has returned a
\* result, every later call that returns, for (a, b) or (b, a), returns a
\* result equal to it in every field.
C1_CacheSymmetry ==
    (last.op = "debate" /\ ~last.raised /\ last.known)
        => last.result = first[PairOfLast].result

\* a call (b, a) answered after (a, b) had been adjudicated
C1_Witness ==
    /\ last.op = "debate" /\ ~last.raised /\ last.known
    /\ first[PairOfLast].a = last.b
    /\ last.result.agent_confidences # Empty

\* C2  run_debate is invoked for a pair only while no call for the unordered
\* pair has succeeded, and the cache holds one entry per pair that succeeded.
C2_AdjudicatorOnlyOnMiss ==
    /\ (last.op = "debate" /\ last.invoked) => ~last.known
    /\ Cardinality(DOMAIN cache) = Cardinality(DOMAIN first)

\* a repeated call for an adjudicated pair that did not invoke run_debate
C2_Witness ==
    /\ last.op = "debate" /\ last.known /\ ~last.invoked
    /\ first[PairOfLast].a = last.a
    /\ first[PairOfLast].result.agent_confidences # Empty

C4_NoWriteOnError ==
    [][(last'.op = "debate" /\ last'.path = "adjudicator_error")
        => /\ last'.raised
           /\ cache' = cache
           /\ disk' = disk
           /\ GetCacheKey(last'.a, last'.b) \notin DOMAIN cache'
           /\ GetCacheKey(last'.a, last'.b) \notin DOMAIN disk']_vars

\* run_debate raised while another pair's result was in the cache
C4_Witness ==
    /\ last.op = "debate" /\ last.path = "adjudicator_error" /\ last.raised
    /\ cache # Empty

\* C29  Whenever run_debate returns to debate_claim_pair (it was invoked and
\* did not raise), the call builds a DebateResult whose verdict is one of
\* refutes, supports, extends, uncertain and stores it under the pair's key,
\* in memory and on disk; this is to hold for every reply of the synthesizer,
\* the reply that cannot be parsed included.
C29_VerdictAlwaysStored ==
    (last.op = "debate" /\ last.invoked /\ last.path # "adjudicator_error")
        => /\ ~last.raised
           /\ last.result.verdict \in Verdicts
           /\ GetCacheKey(last.a, last.b) \in DOMAIN cache
           /\ GetCacheKey(last.a, last.b) \in DOMAIN disk

\* C5  Flag policy: an adjudicated result has requires_human = true exactly
\* when the calibrated confidence is below 0.85, or it has fewer than 2
\* citations, or the evidence pool has fewer than 3 entries, or the mean
\* evidence similarity is below 0.7.
C5_FlagPolicy ==
    (last.op = "debate" /\ last.path = "adjudicated") =>
        (last.result.requires_human <=>
            \/ last.result.calibrated_confidence * 100 < 85 * Unit
            \/ Cardinality(last.result.citations) < 2
            \/ Len(last.evidence_pool) < 3
            \/ SumScores(last.evidence_pool) * 10 < 7 * Unit * Len(last.evidence_pool))

\* an adjudicated result that needs no review
C5_Witness ==
    /\ last.op = "debate" /\ last.path = "adjudicated"
    /\ ~last.result.requires_human

\* ================================================ properties: IndexSpec
\* C8  index_claim on a claim_id that is already indexed fails and adds no
\* vector row and changes neither the id tables nor the metadata table.
C8_DuplicateIdRejected ==
    [][(last'.op = "index" /\ last'.present)
        => /\ last'.raised
           /\ index' = index
           /\ id_to_index' = id_to_index
           /\ index_to_id' = index_to_id
           /\ id_to_metadata' = id_to_metadata]_vars

\* C9  Index bijection: id_to_index and index_to_id are mutually inverse, every
\* row belongs to one claim_id, every indexed claim_id has one row and one
\* metadata row, and their number is the number of stored vectors.
C9_IndexBijection ==
    /\ DOMAIN index_to_id = 0..(ntotal - 1)
    /\ \A id \in DOMAIN id_to_index :
          id_to_index[id] \in DOMAIN index_to_id /\ index_to_id[id_to_index[id]] = id
    /\ \A r \in DOMAIN index_to_id :
          index_to_id[r] \in DOMAIN id_to_index /\ id_to_index[index_to_id[r]] = r
    /\ DOMAIN id_to_metadata = DOMAIN id_to_index
    /\ Cardinality(DOMAIN id_to_index) = ntotal

\* the indexed claims whose vector is the one the last search asked for
IndexedWithQuery ==
    {c \in IndexClaims :
        c.claim_id \in DOMAIN id_to_index /\ c.specter2_embedding = last.embedding}

EdgesBetween(x, y) ==
    {n \in 1..Len(backend_edges) :
        {backend_edges[n].from, backend_edges[n].to} = {x, y}}

\* the pairs of distinct claims of the paper being run
StreamPairs ==
    {pr \in SUBSET {stream.claim_dicts[n].claim_id : n \in 1..Len(stream.claim_dicts)} :
        Cardinality(pr) = 2}

C7_IdempotentIngest ==
    (runs = 2 /\ stream.pc = "idle") =>
        /\ backend_edges = after_first.backend_edges
        /\ nx_edges = after_first.nx_edges
        /\ cache = after_first.cache


\* ================================================ properties: GraphSpec
\* C17  add_relationship for an endpoint that is not a stored node raises and
\* stores no edge, and both endpoints of every stored edge are stored nodes.
C17_UnknownEndpoint ==
    /\ (last.op = "add_relationship" /\ ~last.matched) => (last.raised /\ ~last.stored)
    /\ \A n \in 1..Len(backend_edges) :
          {backend_edges[n].from, backend_edges[n].to} \subseteq DOMAIN backend_nodes

\* C18  The event log holds one record per node or edge write the backend
\* stored, in write order, and no other record.
C18_EventLogComplete ==
    /\ Len(events) = Len(commits)
    /\ \A n \in 1..Len(events) : n <= Len(commits) => events[n].type = commits[n].write

\* the edges written so far that refute with at least m, as triples
RefutesWritten(m) ==
    {<<backend_edges[n].from, backend_edges[n].to,
       JsonLoads(backend_edges[n].properties.citations)>> :
        n \in {k \in 1..Len(backend_edges) :
                 /\ backend_edges[k].properties.relation_type = "refutes"
                 /\ backend_edges[k].properties.confidence >= m}}

\* C20  find_contradictions(m) returns exactly the edges written so far whose
\* relation_type is refutes and whose confidence is at least m, as
\* (from, to, citations) triples.
C20_ContradictionsExact ==
    (backend_type = "inmemory" /\ last.op = "find") =>
        last.result = RefutesWritten(last.min_confidence)

\* =============================================== properties: StreamSpec
\* C19  In a run of process_paper_stream every edge write comes after the
\* add_claim writes of both of its endpoints.
C19_EdgeAfterClaims ==
    \A n \in 1..Len(commits) :
        commits[n].write = "add_edge" =>
            \A id \in {commits[n].from, commits[n].to} :
                \E k \in 1..(n - 1) : commits[k] = [write |-> "add_node", id |-> id]

\* some line of the transcript contains the phrase, word for word
TranscriptContains(debate_log, phrase) ==
    \E n \in 1..Len(debate_log) : IsSubstring(phrase, debate_log[n])

\* the result of the last call is stored under the canonical key of its pair
StoredCanonically ==
    LET key == IF StrLess(last.b, last.a) THEN last.b \o <<"_">> \o last.a
               ELSE last.a \o <<"_">> \o last.b
    IN  /\ key \in DOMAIN cache /\ cache[key] = last.result
        /\ key \in DOMAIN disk /\ disk[key] = last.result

\* what the two pre-filter results have in common with the labels given
PrefilterResultIs(band, phrase, verdict, raw, calibrated) ==
    LET r == last.result
    IN  /\ ~last.raised /\ ~last.invoked
        /\ StoredCanonically
        /\ r.verdict = verdict
        /\ r.confidence = raw
        /\ r.calibrated_confidence = calibrated
        /\ r.confidence_desc \in band
        /\ r.citations = {}
        /\ ~r.requires_human
        /\ TranscriptContains(r.debate_log, phrase)

CheckedHash == FileHash[last.candidate.file_path]

CheckedDoi == last.candidate.metadata.doi

CheckedArxivId == ExtractArxivId(last.candidate.metadata)

\* the version a candidate's arXiv id names: the digits after the "v" that
\* follows the base id, 1 when there is none
CheckedVersion ==
    IF Len(CheckedArxivId) <= Len(ArxivBase) + 1 THEN 1
    ELSE ToInt(SubSeq(CheckedArxivId, Len(ArxivBase) + 2, Len(CheckedArxivId)))

HashMatches == CheckedHash \in DOMAIN file_hashes

DoiMatches == CheckedDoi # <<>> /\ CheckedDoi \in DOMAIN doi_mapping

ArxivMatches == CheckedArxivId # <<>> /\ ArxivBase \in DOMAIN arxiv_mapping

EmbeddingMatches ==
    /\ last.candidate.embedding # <<>>
    /\ \E n \in 1..Len(embedding_vectors) :
          CosineAtLeastThreshold(last.candidate.embedding, embedding_vectors[n])

\* C11  Decision order of check in normal mode: the result is that of the
\* first rule that matches, in the order file hash, DOI, arXiv id, embedding
\* similarity, NEW.
C11_DecisionOrder ==
    (last.op = "check" /\ ~validation_mode) =>
        LET r == last.result
        IN  IF HashMatches
            THEN r.status = "EXACT_DUPLICATE" /\ r.existing_id = file_hashes[CheckedHash]
            ELSE IF DoiMatches
            THEN r.status = "DOI_DUPLICATE" /\ r.existing_id = doi_mapping[CheckedDoi]
            ELSE IF ArxivMatches
            THEN /\ r.status \in {"VERSION_UPDATE", "EXACT_DUPLICATE"}
                 /\ r.existing_id = arxiv_mapping[ArxivBase].paper_id
            ELSE IF EmbeddingMatches
            THEN /\ r.status = "SEMANTIC_DUPLICATE"
                 /\ r.existing_id \in {embedding_ids[n] : n \in 1..Len(embedding_ids)}
            ELSE r.status = "NEW" /\ r.existing_id = "None"

\* a check of a file whose hash is registered for one paper and whose DOI is
\* registered for another returned EXACT_DUPLICATE with the paper of the hash
C11_Witness ==
    /\ last.op = "check" /\ ~validation_mode
    /\ HashMatches /\ DoiMatches
    /\ file_hashes[CheckedHash] # doi_mapping[CheckedDoi]
    /\ last.result.status = "EXACT_DUPLICATE"
    /\ last.result.existing_id = file_hashes[CheckedHash]

\* C12  When neither the file hash nor the DOI matches and the arXiv base id
\* is registered, check returns VERSION_UPDATE with should_replace, the
\* registered paper and the old and new versions if the candidate's version
\* is strictly higher than the recorded one, and EXACT_DUPLICATE otherwise.
C12_VersionRule ==
    (last.op = "check" /\ ~validation_mode /\ ~HashMatches /\ ~DoiMatches
        /\ ArxivMatches) =>
        LET r == last.result
        IN  /\ r.existing_id = arxiv_mapping[ArxivBase].paper_id
            /\ IF CheckedVersion > arxiv_mapping[ArxivBase].version
               THEN /\ r.status = "VERSION_UPDATE"
                    /\ r.should_replace
                    /\ r.version_info.old_version = arxiv_mapping[ArxivBase].version
                    /\ r.version_info.new_version = CheckedVersion
               ELSE /\ r.status = "EXACT_DUPLICATE"
                    /\ ~r.should_replace

\* version 10 was checked against a recorded version 2 and is an update
C12_Witness ==
    /\ last.op = "check" /\ ~validation_mode /\ ~HashMatches /\ ~DoiMatches
    /\ ArxivMatches
    /\ arxiv_mapping[ArxivBase].version = 2
    /\ CheckedVersion = 10
    /\ last.result.status = "VERSION_UPDATE"
    /\ last.result.version_info.old_version = 2
    /\ last.result.version_info.new_version = 10

\* the version the arXiv id of a registered candidate names
RegisteredVersion(cand) ==
    LET id == ExtractArxivId(cand.metadata)
    IN  IF Len(id) <= Len(ArxivBase) + 1 THEN 1
        ELSE ToInt(SubSeq(id, Len(ArxivBase) + 2, Len(id)))

\* C13  Version monotonicity: a register call for an arXiv base id that is
\* already recorded at version v, made with version v', leaves the record at
\* max(v, v'), so the recorded version never decreases.
C13_VersionMonotone ==
    [][(registrations' = registrations + 1
           /\ ExtractArxivId(last'.candidate.metadata) # <<>>
           /\ ArxivBase \in DOMAIN arxiv_mapping) =>
          /\ ArxivBase \in DOMAIN arxiv_mapping'
          /\ arxiv_mapping'[ArxivBase].version
                = Max(arxiv_mapping[ArxivBase].version, RegisteredVersion(last'.candidate))
          /\ arxiv_mapping'[ArxivBase].version >= arxiv_mapping[ArxivBase].version]_vars

\* C14  With validation mode on, check returns status NEW for every input
\* and every state of the tables.
C14_ValidationModeNew ==
    (last.op = "check" /\ validation_mode) => last.result.status = "NEW"

\* C15  check is read-only: in validation mode and in normal mode, whatever
\* it returns, a check leaves the file-hash table, the DOI table, the arXiv
\* table, the embedding ids and vectors and the files on disk unchanged.
C15_CheckReadOnly ==
    [][last'.op = "check" =>
          UNCHANGED <<file_hashes, doi_mapping, arxiv_mapping, embedding_ids,
                      embedding_vectors, dedup_disk>>]_vars

\* a check in validation mode of a file whose hash is registered: the
\* duplicate was reported as NEW and the tables still hold the row
C15_Witness ==
    /\ last.op = "check" /\ validation_mode
    /\ HashMatches
    /\ last.result.status = "NEW"
    /\ Len(embedding_ids) > 0

\* C16  After remove(paper_id) no row of the file-hash, DOI or arXiv table
\* maps to paper_id and no stored embedding belongs to it.
C16_RemoveLeavesNoRow ==
    last.op = "remove" =>
        /\ \A h \in DOMAIN file_hashes : file_hashes[h] # last.paper_id
        /\ \A d \in DOMAIN doi_mapping : doi_mapping[d] # last.paper_id
        /\ \A a \in DOMAIN arxiv_mapping : arxiv_mapping[a].paper_id # last.paper_id
        /\ \A n \in 1..Len(embedding_ids) : embedding_ids[n] # last.paper_id

\* =============================================== properties: PathSpec
\* u and v are joined by an edge of the mirror, in either direction
Joined(u, v) == <<u, v>> \in DOMAIN nx_edges \/ <<v, u>> \in DOMAIN nx_edges

\* the ids within n steps of a in the undirected projection of the mirror
RECURSIVE Within(_, _)
Within(a, n) ==
    IF n = 0 THEN {a}
    ELSE LET near == Within(a, n - 1)
         IN  near \cup {v \in nx_nodes \cup {a} : \E u \in near : Joined(u, v)}

\* the distance from a to b: the least number of steps, -1 when none reaches
Distance(a, b) ==
    LET far == Cardinality(nx_nodes)
        reach == {n \in 0..far : b \in Within(a, n)}
    IN  IF reach = {} THEN -1 ELSE CHOOSE n \in reach : \A k \in reach : n <= k

\* C21  For all ids a and b, evidence_path(a, b) returns a shortest path from
\* a to b in the undirected projection of the mirror when one exists, and
\* the empty list, raising nothing, when none exists.
C21_EvidencePath ==
    last.op = "path" =>
        LET d == Distance(last.from, last.to)
            w == last.result
        IN  /\ ~last.raised
            /\ IF d = -1 \/ ~({last.from, last.to} \subseteq nx_nodes)
               THEN w = <<>>
               ELSE /\ Len(w) = d + 1
                    /\ w[1] = last.from /\ w[Len(w)] = last.to
                    /\ \A i \in 1..(Len(w) - 1) : Joined(w[i], w[i + 1])

\* =============================================== properties: StreamSpec (2)
\* the texts of the claims the consumer has received in the current run
YieldedTexts == [n \in 1..Len(stream.out) |-> stream.out[n].text]

\* the consumer has iterated the current run of the stream to exhaustion
Exhausted == stream.pc = "gathering" \/ (stream.pc = "idle" /\ runs > 0)

C23_CompletesAfterTasks ==
    /\ []((stream.pc = "idle" /\ runs > 0) =>
             /\ Len(tasks) = Len(stream.claim_dicts)
             /\ \A i \in 1..Len(tasks) : tasks[i].pc = "done")
    /\ (stream.pc # "idle") ~> (stream.pc = "idle")

\* a run has completed whose two tasks both finished, one of them after
\* writing an edge
C23_Witness ==
    /\ stream.pc = "idle" /\ runs = 1
    /\ Len(tasks) = 2
    /\ \A i \in 1..Len(tasks) : tasks[i].pc = "done"
    /\ Len(backend_edges) > 0

\* =============================================== properties: FanOutSpec
\* the tasks whose call of debate_claim_pair has started and not yet finished
InFlight == {i \in 1..Len(tasks) : tasks[i].pc \in {"lookup", "adjudicating"}}

\* C24  Bounded concurrency: at every moment of a run of
\* process_paper_stream at most 4 adjudications (the default limit) are in
\* flight, however many claims the paper has.
C24_BoundedConcurrency == Cardinality(InFlight) <= 4

\* the neighbours other than the claim itself among seq
NonSelf(task, seq) == {n \in 1..Len(seq) : seq[n].claim_id # task.c_dict.claim_id}

\* C30  Each adjudication task takes the up to 5 nearest neighbours of its
\* claim with similarity >= 0.6, removes the claim itself and considers the
\* top 2 of the rest: when at least two neighbours other than the claim
\* qualify, two pairs are considered for debate.
C30_TopTwoNonSelf ==
    \A i \in 1..Len(tasks) :
        tasks[i].pc # "created" =>
            LET task == tasks[i]
                qualify == NonSelf(task, task.similar_claims)
                considered == NonSelf(task, TopTwo(task.similar_claims))
            IN  /\ Len(task.similar_claims) <= 5
                /\ Cardinality(considered) = Min(2, Cardinality(qualify))

\* =============================================== properties: CloseSpec
\* C25  Once the consumer has closed the stream before exhausting it, every
\* task already spawned is cancelled: no task takes another step, and no
\* cache entry and no graph edge is written.
C25_CloseCancelsTasks ==
    [][stream.pc = "closed" =>
          UNCHANGED <<tasks, cache, disk, backend_edges, nx_edges>>]_vars

\* =============================================== properties: CalibSpec
\* the calibrated value of raw / RawScale in the present state of the layer
Calibrated(raw) == CalibrateWith(is_fitted, calibrator, raw)[1]

\* C27  calibrate is monotone non-decreasing with results in [0, 1], in
\* untrained mode and once trained: for raw1 <= raw2 the calibrated value of
\* raw1 is at most that of raw2, and calibrate(0) <= calibrate(x) <=
\* calibrate(1).
C27_CalibrateMonotone ==
    /\ \A raw1, raw2 \in Raws :
          raw1 <= raw2 => FracLeq(Calibrated(raw1), Calibrated(raw2))
    /\ \A raw \in Raws :
          /\ FracLeq(<<0, 1>>, Calibrated(raw)) /\ FracLeq(Calibrated(raw), <<1, 1>>)
          /\ FracLeq(Calibrated(0), Calibrated(raw))
          /\ FracLeq(Calibrated(raw), Calibrated(RawScale))
    /\ last.op = "calibrate" =>
          /\ FracLeq(<<0, 1>>, last.result[1]) /\ FracLeq(last.result[1], <<1, 1>>)
          /\ ~is_fitted =>
                last.result[1][1] * RawScale * 10 = last.raw * 9 * last.result[1][2]

\* a trained layer whose validation data was out of order (a correct answer
\* at a lower score than a wrong one), asked for a score between two fitted
\* points, returned a value strictly between 0 and 1
C27_Witness ==
    /\ is_fitted
    /\ last.op = "calibrate"
    /\ \A n \in 1..Len(calibrator) : calibrator[n][1] # last.raw
    /\ FracLess(<<0, 1>>, last.result[1]) /\ FracLess(last.result[1], <<1, 1>>)
    /\ FracLess(Calibrated(0), Calibrated(RawScale))
    /\ \E n \in 1..(Len(calibrator) - 1) :
          calibrator[n][2] = calibrator[n + 1][2] /\ calibrator[n][2][2] > 1

\* C28  Calibrator persistence round trip: a CalibrationLayer constructed on
\* the same model path after train(...) is in trained mode and calibrate
\* returns the values of the trained instance; with no model on disk, and no
\* training before, it starts in untrained mode.
C28_PersistenceRoundTrip ==
    last.op = "restart" =>
        IF last.was_fitted
        THEN /\ is_fitted
             /\ \A raw \in Raws :
                   CalibrateWith(is_fitted, calibrator, raw)
                       = CalibrateWith(TRUE, last.before, raw)
        ELSE model_file = "absent" => ~is_fitted

\* a character of a word: the characters of ids (letters, digits, "_")
IsWordChar(c) == c \in DOMAIN Code

\* id occurs in line as a whole id: no word character stands next to it
WholeIdIn(id, line) ==
    \E i \in 1..(Len(line) - Len(id) + 1) :
        /\ SubSeq(line, i, i + Len(id) - 1) = id
        /\ i > 1 => ~IsWordChar(line[i - 1])
        /\ i + Len(id) <= Len(line) => ~IsWordChar(line[i + Len(id)])

\* C35  The citations of an adjudicated result are exactly the ids of the
\* evidence pool that occur in some transcript line as a whole id, at word
\* boundaries; an id that occurs only inside a longer id is not cited, and
\* no id outside the pool is cited.
C35_WholeIdCitations ==
    (last.op = "debate" /\ last.path = "adjudicated")
        => last.result.citations =
              {last.evidence_pool[j].claim_id : j \in
                  {k \in 1..Len(last.evidence_pool) :
                      \E n \in 1..Len(last.result.debate_log) :
                          WholeIdIn(last.evidence_pool[k].claim_id,
                                    last.result.debate_log[n])}}

\* ----------------------------------------------------- properties: FaultSpec
\* C31  When index_claim raises for one claim of a paper, the stream still
\* yields every extracted claim, in order, and every other claim of the
\* paper is in the index: indexing went on with the claims after the
\* failing one.
C31_IndexingContinues ==
    (stream.pc # "idle"
        /\ \E n \in 1..Len(stream.claim_dicts) :
              WrongDimension(stream.claim_dicts[n].specter2_embedding))
        => /\ \A n \in 1..Len(stream.claim_dicts) :
                 ~WrongDimension(stream.claim_dicts[n].specter2_embedding)
                     => stream.claim_dicts[n].claim_id \in DOMAIN id_to_index
           /\ stream.pc = "gathering" => stream.out = stream.claim_dicts

\* -------------------------------------------------- properties: RecoverySpec
\* the debate task i was waiting for failed: the task ends in this step
DebateFailedIn(i) ==
    /\ i <= Len(tasks')
    /\ tasks[i].pc = "adjudicating"
    /\ tasks'[i].pc = "done"

\* a neighbour other than the claim itself is left in the task's loop
NeighbourLeft(task) ==
    \E n \in 2..Len(task.todo) : task.todo[n].claim_id # task.c_dict.claim_id

\* C32  When the debate of one neighbour fails, the task does not end while
\* another neighbour of its claim is left to process, the tasks of the other
\* claims are as they were, and the stream goes on as it was.
C32_PerPairRecovery ==
    [][\A i \in 1..Len(tasks) :
          DebateFailedIn(i)
              => /\ ~NeighbourLeft(tasks[i])
                 /\ \A j \in 1..Len(tasks) : j # i => tasks'[j] = tasks[j]
                 /\ stream' = stream]_vars

\* ----------------------------------------------- properties: SearchFaultSpec
\* C33  When evidence retrieval fails in debate_claim_pair, the call does not
\* raise: it returns a result built from an empty evidence pool, with
\* requires_human = true, and that result is in the cache under the pair's
\* key.
C33_RetrievalFallback ==
    (last.op = "debate" /\ last.path = "retrieval_error")
        => /\ ~last.raised
           /\ last.evidence_pool = <<>>
           /\ last.result.requires_human
           /\ GetCacheKey(last.a, last.b) \in DOMAIN cache
           /\ cache[GetCacheKey(last.a, last.b)] = last.result

\* ---------------------------------------------- properties: ShouldDebateSpec
\* b is among the neighbours the search returned, with similarity > 0.6
AmongNeighbours ==
    \E n \in 1..Len(last.results) :
        /\ last.results[n].claim_id = last.b
        /\ last.results[n].similarity_score * 10 > 6 * Unit

\* C34  should_debate_claims(a, b) answers true when a has no embedding; when
\* a has one, it answers true if b is among the 10 nearest neighbours of a's
\* embedding with similarity > 0.6, and false if b is not among them or its
\* similarity is at most 0.6.
C34_ShouldDebate ==
    last.op = "should_debate"
        => IF "specter2_embedding" \in DOMAIN last.a
           THEN last.answer = AmongNeighbours
           ELSE last.answer

\* ------------------------------------------------------ properties: SaveSpec
\* thread t is between its write to the cache and the end of _save_cache
InCriticalSection(t) == savers[t].pc \in {"stored", "opened", "dumping"}

\* C36  When debate_claim_pair runs in several threads for different pairs,
\* at most one thread at a time is between its cache write and the end of
\* its save; the cache file is a complete mapping at every moment once it
\* exists; and when every call is over each call has returned and its
\* result is in the cache in memory and in the file.
C36_CacheWriteExclusive ==
    /\ Cardinality({t \in Savers : InCriticalSection(t)}) <= 1
    /\ cache_file.text \in {"absent", "complete"}
    /\ (\A t \in Savers : savers[t].pc \in {"returned", "raised"})
          => \A t \in Savers :
                /\ savers[t].pc = "returned"
                /\ SaverKey(t) \in DOMAIN cache
                /\ SaverKey(t) \in DOMAIN cache_file.mapping

\* ----------------------------------------------------- properties: ModelSpec
\* a thread is inside a use_model block
InBlock(w) == workers[w].pc = "using"

\* a thread waits in cleanup or unload_model
Waiting(w) == workers[w].pc = "waiting"

\* C40  While cleanup or unload_model waits, a thread inside a use_model
\* block is able to leave it and decrement the usage count (the lock it needs
\* for that is free); a model with a positive usage count is removed only
\* when max_wait has elapsed; and when no thread is inside an operation every
\* usage count is 0.
C40_CleanupWaitsForUsers ==
    /\ \A c \in Workers, u \in Workers :
          (Waiting(c) /\ InBlock(u)) => model_cache.cleanup_lock = 0
    /\ (last.op \in {"cleanup", "unload_model"} /\ last.in_use)
          => last.waited >= last.max_wait
    /\ (\A w \in Workers : workers[w].pc = "idle")
          => \A k \in DOMAIN model_cache.usage_count : model_cache.usage_count[k] = 0

\* ----------------------------------------- properties: GraphSpec, the mirror
\* the mirror and the backend hold the same nodes and the same edges: every
\* stored edge is the mirror's edge of its ordered pair, with the same
\* relation_type and confidence, and the mirror has as many edges as the
\* backend
MirrorMatches ==
    /\ nx_nodes = DOMAIN backend_nodes
    /\ Len(backend_edges) = Cardinality(DOMAIN nx_edges)
    /\ \A n \in 1..Len(backend_edges) :
          LET e == backend_edges[n]
          IN  /\ <<e.from, e.to>> \in DOMAIN nx_edges
              /\ nx_edges[<<e.from, e.to>>].relation_type = e.properties.relation_type
              /\ nx_edges[<<e.from, e.to>>].confidence = e.properties.confidence

\* C37  After every add_claim and add_relationship call the mirror and the
\* backend hold the same set of nodes and the same multiset of edges, also
\* when an ordered pair is related twice or an endpoint was never added as
\* a claim; and a call whose backend write fails leaves the mirror as it was.
C37_MirrorConsistency ==
    [][/\ MirrorMatches'
       /\ (last'.op \in {"add_claim", "add_relationship"} /\ last'.raised)
             => UNCHANGED <<nx_nodes, nx_edges>>]_vars

\* ------------------------------------------------------- properties: KeySpec
\* the unordered pair of claim ids of a pair of claims
IdsOf(pair) == {pair[1].claim_id, pair[2].claim_id}

\* C38  Two different unordered pairs of claim ids never have the same cache
\* key, also when paper ids contain "_"; so a call of debate_claim_pair that
\* is answered from the cache is for a pair that was debated before.
C38_KeyInjective ==
    /\ \A pair, other \in KeyPairs :
          GetCacheKey(pair[1].claim_id, pair[2].claim_id)
              = GetCacheKey(other[1].claim_id, other[2].claim_id)
          => IdsOf(pair) = IdsOf(other)
    /\ (last.op = "debate" /\ last.path = "hit") => last.known

\* ------------------------------------------ properties: DedupSpec, restart
\* C39  After every register_paper and remove_paper call, a new engine opened
\* on the storage directory loads exactly the tables the running engine
\* holds: file hashes, DOIs, arXiv ids, embedding ids and vectors.
C39_RegistryPersisted ==
    last.op \in {"register", "remove"} => LoadRegistry(dedup_disk) = Registry

============================================================================
